---- MODULE Spec2Model ----
(***************************************************************************)
(* Model of the PRONAS/PCD ai-service (services/ai-service/src): the       *)
(* feedback endpoint and the bias detector's learning loop, the bias       *)
(* analysis, and the project synthesizer.                                  *)
(*                                                                         *)
(* Decimal quantities of the source (rates, scores, budget shares) are     *)
(* kept as exact integers in a stated unit; the unit is named where the    *)
(* quantity is defined.                                                    *)
(***************************************************************************)
EXTENDS Integers, Sequences, FiniteSets, TLC

VARIABLES
    \* ---- BiasDetector (bias_detector.py:12-16)
    historical_data,      \* self.historical_data: the list learn_from_feedback appends to
    bias_fitted_on,       \* number of entries the isolation forest was last fitted on (0 = never)
    \* ---- process_feedback (main.py:331-366), one request at a time on the event loop
    fb_requests,          \* number of feedback requests served so far
    fb_success,           \* number of them answered "feedback_received"
    fb_other,             \* number of them whose type was not approval_decision
    fb_response,          \* the response of the last feedback request
    fb_retrains,          \* retraining runs completed inside the last request, before its response
    fb_last,              \* the last request: its type and whether _retrain_bias_detector was entered
    background_tasks,     \* retrain_models tasks added to BackgroundTasks so far
    \* ---- ProjectPredictor.generate_project_structure (ml_models.py:74-118)
    clock,                \* the reading datetime.now().timestamp() gives at this moment
    issued_ids,           \* the "id" of every structure returned so far, in call order
    project_structure,    \* the structure the last call returned
    synth_status,         \* "none", "returned" or "raised": how the last call ended
    \* ---- BiasDetector.analyze (bias_detector.py:18-59), called by detect_bias
    analysis_input,       \* the project_data the caller submits
    analysis_status,      \* "none", "returned" or "raised": how the last call ended
    analysis,             \* the report the last call returned
    detector_results,     \* the four bias_result dicts of the last call, in call order
    geographic_score,     \* the float bias_result['score'] of the geographic detector in it
    observed,             \* what analyze has answered for analysis_input so far
    \* ---- NLPEngine.validate_section (nlp_engine.py:366-434)
    validation_result,    \* the result of the last validate_section call
    validated_content,    \* the content that call was given
    previous_result,      \* the result of the call before it
    \* ---- validate_conformity (main.py:237-287)
    conformity_input,     \* the (section, content) items of project_data, in dict order
    conformity_status,    \* "none" or "returned": whether a call has returned
    conformity_results,   \* validation_results of the last call
    conformity_report,    \* the ConformityReport the last call returned
    \* ---- NLPEngine.improve_text (nlp_engine.py:171-240)
    improve_input,        \* the (text, context, field_type) of the call
    improvement,          \* its outcome, with both texts validated
    \* ---- NLPEngine.guidelines_cache (nlp_engine.py:21, 436-464, 513-522)
    guidelines_cache,     \* self.guidelines_cache, a dict
    cache_populations,    \* stores into the cache since the last clear
    cache_clears,         \* calls of cleanup so far
    loader_pc,            \* each caller of load_current_guidelines
    loader_result,        \* what each caller received, and after which clear
    \* ---- ProjectPredictor.load_models and /ready (ml_models.py:16-63)
    loaded_models,        \* the attributes of the predictor that are not None
    models_loaded,        \* self.models_loaded
    load_step,            \* 0: no load running; k: the k-th load is next
    load_attempts,        \* calls of load_models so far
    load_failed,          \* the last call of load_models raised
    ready_responses,      \* the answers of readiness_check, oldest first
    \* ---- failing requests (main.py:186-189, 233-235, 285-287, 327-329, 364-366)
    error_log,            \* the failed requests: operation, exception, response
    \* ---- NLPEngine.process_guidelines (nlp_engine.py:61-122)
    guideline_texts,      \* the texts of the call
    guideline_status,     \* "none", "returned" or "raised"
    processed,            \* the dict the call returned
    \* ---- generate_project (main.py:125-189)
    pipeline,             \* each request: its position and its local variables
    \* ---- projects-service (projects-service/src/main.py)
    projects,             \* the rows of the projects table, by id
    px_log,               \* the requests served, each with its response
    \* ---- NLPEngine.improve_text, choice of the example (nlp_engine.py:178-231)
    examples_input,       \* the approved examples of the call and whether it raises
    choice,               \* the path taken, the confidence and the example used
    \* ---- generate_project, synthesis followed by bias analysis (main.py:147-157)
    generated             \* the seed, the structure as the detectors read it, the report

fbVars == <<historical_data, bias_fitted_on, fb_requests, fb_success, fb_other,
            fb_response, fb_retrains, fb_last, background_tasks>>

synthVars == <<clock, issued_ids, project_structure, synth_status>>

biasVars == <<analysis_input, analysis_status, analysis, detector_results,
              geographic_score, observed>>

valVars == <<validation_result, validated_content, previous_result,
             conformity_input,
             conformity_status, conformity_results, conformity_report>>

\* Everything outside the feedback loop, the synthesizer and the bias analysis.
textVars == <<improve_input, improvement>>

cacheVars == <<guidelines_cache, cache_populations, cache_clears, loader_pc,
               loader_result>>

readyVars == <<loaded_models, models_loaded, load_step, load_attempts,
               load_failed, ready_responses>>

errVars == <<error_log>>

guideVars == <<guideline_texts, guideline_status, processed>>

pipeVars == <<pipeline>>

projVars == <<projects, px_log>>

choiceVars == <<examples_input, choice>>

\* The components added last
genVars == <<generated>>

moreVars == <<projVars, choiceVars, genVars>>

extVars ==
    <<valVars, textVars, cacheVars, readyVars, errVars, guideVars, pipeVars,
      moreVars>>

\* What the actions of one component leave alone
outsideVal ==
    <<fbVars, synthVars, biasVars, textVars, cacheVars, readyVars, errVars,
      guideVars, pipeVars, moreVars>>
outsideText ==
    <<fbVars, synthVars, biasVars, valVars, cacheVars, readyVars, errVars,
      guideVars, pipeVars, moreVars>>
outsideCache ==
    <<fbVars, synthVars, biasVars, valVars, textVars, readyVars, errVars,
      guideVars, pipeVars, moreVars>>
outsideReady ==
    <<fbVars, synthVars, biasVars, valVars, textVars, cacheVars, errVars,
      guideVars, pipeVars, moreVars>>
outsideErr ==
    <<fbVars, synthVars, biasVars, valVars, textVars, cacheVars, readyVars,
      guideVars, pipeVars, moreVars>>
outsideGuide ==
    <<fbVars, synthVars, biasVars, valVars, textVars, cacheVars, readyVars,
      errVars, pipeVars, moreVars>>
outsidePipe ==
    <<fbVars, synthVars, biasVars, valVars, textVars, cacheVars, readyVars,
      errVars, guideVars, moreVars>>
outsideProj ==
    <<fbVars, synthVars, biasVars, valVars, textVars, cacheVars, readyVars,
      errVars, guideVars, pipeVars, choiceVars, genVars>>
outsideChoice ==
    <<fbVars, synthVars, biasVars, valVars, textVars, cacheVars, readyVars,
      errVars, guideVars, pipeVars, projVars, genVars>>
outsideGen ==
    <<fbVars, synthVars, biasVars, valVars, textVars, cacheVars, readyVars,
      errVars, guideVars, pipeVars, projVars, choiceVars>>

vars == <<fbVars, synthVars, biasVars, extVars>>

(***************************************************************************)
(* Bounds of the model.                                                    *)
(***************************************************************************)
MaxRequests == 101        \* feedback requests per behaviour
MaxIrregular == 1         \* feedback requests that are not a well-formed approval_decision
MaxClock == 2             \* clock readings 0..MaxClock
MaxCalls == 2             \* calls of generate_project_structure per behaviour

(***************************************************************************)
(* Program constants.                                                      *)
(***************************************************************************)
RetrainThreshold == 100       \* main.py:355  feedback_count >= 100
BiasRetrainThreshold == 100   \* bias_detector.py:255  len(historical_data) >= 100
StubFeedbackCount == 42       \* ml_models.py:647  return 42
DefaultBudget == 500000       \* ml_models.py:258  data.get('budget', 500000)
DefaultDuration == 18         \* ml_models.py:308  timelines.get(project_type, 18)
NumPhases == 6                \* ml_models.py:311  duration // 6, six phase names

(***************************************************************************)
(* Feedback requests.  FeedbackRequest.data is Dict[str, Any]; what        *)
(* _retrain_bias_detector needs of data["features"] is that it is a        *)
(* mapping: "dict" is a mapping (possibly the default {}), "null" is a     *)
(* JSON null, which data.get("features", {}) returns as None.              *)
(***************************************************************************)
FeedbackTypes == {"approval_decision", "comment"}
FeatureShapes == {"dict", "null"}

FeedbackInputs ==
    [project_id : {"p1"}, feedback_type : FeedbackTypes,
     outcome : {"approved"}, features : FeatureShapes]

NoResponse == [status_code |-> 0, status |-> "none", feedback_count |-> 0,
               retraining_scheduled |-> FALSE]

ErrorResponse == [status_code |-> 500, status |-> "error", feedback_count |-> 0,
                  retraining_scheduled |-> FALSE]

\* ProjectPredictor.get_feedback_count
GetFeedbackCount == StubFeedbackCount

\* BiasDetector._retrain_bias_detector raises when an entry's features is not a
\* mapping: entry['features'].get(...) on None is an AttributeError.
RetrainBiasDetectorRaises(h) ==
    \E i \in 1..Len(h) : h[i].features = "null"

\* learn_from_feedback as it would be if a completed retraining consumed the
\* history it was trained on.
LearnFromFeedbackConsuming(h, fb) ==
    LET entry == [project_id |-> fb.project_id, outcome |-> fb.outcome,
                  features |-> fb.features]
        h2 == Append(h, entry)
        retrain == Len(h2) >= BiasRetrainThreshold
        raised == retrain /\ RetrainBiasDetectorRaises(h2)
    IN  [history |-> IF retrain /\ ~raised THEN <<>> ELSE h2,
         retrain_started |-> retrain,
         raised |-> raised]

\* learn_from_feedback retraining only when the history reaches the
\* threshold, not again after it.
LearnFromFeedbackAtThreshold(h, fb) ==
    LET entry == [project_id |-> fb.project_id, outcome |-> fb.outcome,
                  features |-> fb.features]
        h2 == Append(h, entry)
        retrain == Len(h2) = BiasRetrainThreshold
    IN  [history |-> h2,
         retrain_started |-> retrain,
         raised |-> retrain /\ RetrainBiasDetectorRaises(h2)]

\* BiasDetector.learn_from_feedback: the entry is appended first, then the
\* detector is retrained inline (awaited) once the history is long enough.
LearnFromFeedback(h, fb) ==
    LET entry == [project_id |-> fb.project_id, outcome |-> fb.outcome,
                  features |-> fb.features]
        h2 == Append(h, entry)
        retrain == Len(h2) >= BiasRetrainThreshold
    IN  [history |-> h2,
         retrain_started |-> retrain,
         raised |-> retrain /\ RetrainBiasDetectorRaises(h2)]

\* What process_feedback answers when nothing raised.
FeedbackResponse(count) ==
    [status_code |-> 200, status |-> "feedback_received", feedback_count |-> count,
     retraining_scheduled |-> count >= RetrainThreshold]

\* Whether process_feedback adds the retrain_models background task.
SchedulesRetraining(count) == count >= RetrainThreshold

Irregular(fb) == fb.feedback_type # "approval_decision" \/ fb.features = "null"

IrregularSoFar ==
    fb_other + Cardinality({i \in 1..Len(historical_data) :
                                historical_data[i].features = "null"})

\* POST /api/v1/feedback.  None of the awaited coroutines suspends, so the
\* handler runs from its first line to its return without interleaving.
ProcessFeedback(fb) ==
    /\ fb_requests < MaxRequests
    /\ Irregular(fb) => IrregularSoFar < MaxIrregular
    /\ LET learn == IF fb.feedback_type = "approval_decision"
                    THEN LearnFromFeedback(historical_data, fb)
                    ELSE [history |-> historical_data, retrain_started |-> FALSE,
                          raised |-> FALSE]
           count == GetFeedbackCount
       IN  /\ fb_requests' = fb_requests + 1
           /\ fb_other' = IF fb.feedback_type = "approval_decision"
                          THEN fb_other ELSE fb_other + 1
           /\ historical_data' = learn.history
           /\ bias_fitted_on' = IF learn.retrain_started /\ ~learn.raised
                                THEN Len(learn.history) ELSE bias_fitted_on
           /\ fb_retrains' = IF learn.retrain_started /\ ~learn.raised THEN 1 ELSE 0
           /\ fb_last' = [feedback_type |-> fb.feedback_type,
                          retrain_entered |-> learn.retrain_started]
           /\ IF learn.raised
              THEN /\ fb_response' = ErrorResponse
                   /\ UNCHANGED <<fb_success, background_tasks>>
              ELSE /\ fb_response' = FeedbackResponse(count)
                   /\ fb_success' = fb_success + 1
                   /\ background_tasks' = IF SchedulesRetraining(count)
                                          THEN background_tasks + 1
                                          ELSE background_tasks
    /\ UNCHANGED <<synthVars, biasVars, extVars>>

(***************************************************************************)
(* Project synthesizer (ml_models.py).                                     *)
(*                                                                         *)
(* The budget amounts are Python floats, IEEE-754 binary64.  An amount is  *)
(* kept as its sign and its magnitude in units of 2^-56, an exact natural  *)
(* number held as a sequence of limbs; the literals 0.40, 0.20, ... are    *)
(* the doubles nearest to them and every product is rounded to 53          *)
(* significant bits, ties to even, as the hardware does.                   *)
(***************************************************************************)
ProjectTypes == {"research", "development", "training", "outreach"}

\* initial_data["budget"]: absent, a number, or a string (Dict[str, Any]).
SeedBudgets ==
    {[kind |-> "absent", value |-> 0], [kind |-> "text", value |-> 0]}
    \cup [kind : {"number"}, value : {-100, 0, 1, 3, 200000, 1000000, 1500000}]

\* Natural numbers of any size: little-endian sequences of limbs in 0..2^10-1,
\* without leading (high) zero limbs; <<>> is zero.
LimbBase == 2^10

RECURSIVE BigNorm(_)
BigNorm(x) ==
    IF x = <<>> THEN <<>>
    ELSE IF x[Len(x)] = 0 THEN BigNorm(SubSeq(x, 1, Len(x) - 1)) ELSE x

RECURSIVE BigFromInt(_)
BigFromInt(n) ==
    IF n = 0 THEN <<>> ELSE <<n % LimbBase>> \o BigFromInt(n \div LimbBase)

RECURSIVE BigAddC(_, _, _)
BigAddC(x, y, carry) ==
    IF x = <<>> /\ y = <<>>
    THEN (IF carry = 0 THEN <<>> ELSE <<carry>>)
    ELSE LET a == IF x = <<>> THEN 0 ELSE Head(x)
             b == IF y = <<>> THEN 0 ELSE Head(y)
             s == a + b + carry
         IN  <<s % LimbBase>> \o BigAddC(IF x = <<>> THEN <<>> ELSE Tail(x),
                                     IF y = <<>> THEN <<>> ELSE Tail(y),
                                     s \div LimbBase)

BigAdd(x, y) == BigAddC(x, y, 0)

\* x * k for 0 <= k < 2^21
RECURSIVE BigMulC(_, _, _)
BigMulC(x, k, carry) ==
    IF x = <<>> THEN BigFromInt(carry)
    ELSE LET p == Head(x) * k + carry
         IN  <<p % LimbBase>> \o BigMulC(Tail(x), k, p \div LimbBase)

BigMulSmall(x, k) == BigNorm(BigMulC(x, k, 0))

\* -1, 0, 1 as x < y, x = y, x > y
RECURSIVE BigCmp(_, _)
BigCmp(x, y) ==
    IF Len(x) # Len(y) THEN (IF Len(x) < Len(y) THEN -1 ELSE 1)
    ELSE IF x = <<>> THEN 0
    ELSE IF x[Len(x)] # y[Len(y)] THEN (IF x[Len(x)] < y[Len(y)] THEN -1 ELSE 1)
    ELSE BigCmp(SubSeq(x, 1, Len(x) - 1), SubSeq(y, 1, Len(y) - 1))

\* x - y for x >= y
RECURSIVE BigSubB(_, _, _)
BigSubB(x, y, borrow) ==
    IF x = <<>> THEN <<>>
    ELSE LET b == IF y = <<>> THEN 0 ELSE Head(y)
             d == Head(x) - b - borrow
         IN  <<d % LimbBase>> \o BigSubB(Tail(x), IF y = <<>> THEN <<>> ELSE Tail(y),
                                     IF d < 0 THEN 1 ELSE 0)

BigSub(x, y) == BigNorm(BigSubB(x, y, 0))

BigDist(x, y) == IF BigCmp(x, y) >= 0 THEN BigSub(x, y) ELSE BigSub(y, x)

RECURSIVE IntBitLen(_)
IntBitLen(n) == IF n = 0 THEN 0 ELSE 1 + IntBitLen(n \div 2)

BigBitLen(x) == IF x = <<>> THEN 0 ELSE 10 * (Len(x) - 1) + IntBitLen(x[Len(x)])

Zeros(n) == [i \in 1..n |-> 0]

\* x * 2^s
BigShl(x, s) ==
    IF x = <<>> THEN <<>>
    ELSE Zeros(s \div 10) \o BigMulSmall(x, 2^(s % 10))

\* floor(x / d) and x mod d for 1 <= d < 2^20, from the high limb down
RECURSIVE BigDivR(_, _, _)
BigDivR(x, d, rem) ==
    IF x = <<>> THEN [q |-> <<>>, r |-> rem]
    ELSE LET cur == rem * LimbBase + x[Len(x)]
             rest == BigDivR(SubSeq(x, 1, Len(x) - 1), d, cur % d)
         IN  [q |-> Append(rest.q, cur \div d), r |-> rest.r]

BigDivSmall(x, d) ==
    LET res == BigDivR(x, d, 0) IN [q |-> BigNorm(res.q), r |-> res.r]

\* floor(x / 2^s)
BigShr(x, s) ==
    LET dropped == IF s \div 10 >= Len(x) THEN <<>>
                   ELSE SubSeq(x, s \div 10 + 1, Len(x))
    IN  BigDivSmall(dropped, 2^(s % 10)).q

\* x + d and x - d for an integer 0 <= d < 2^30 (x >= d)
RECURSIVE BigAddInt(_, _)
BigAddInt(x, d) ==
    IF d = 0 THEN x
    ELSE IF x = <<>> THEN BigFromInt(d)
    ELSE <<(Head(x) + d) % LimbBase>> \o BigAddInt(Tail(x), (Head(x) + d) \div LimbBase)

RECURSIVE BigSubIntB(_, _)
BigSubIntB(x, d) ==
    IF d = 0 THEN x
    ELSE LET t == Head(x) - (d % LimbBase)
         IN  <<t % LimbBase>>
             \o BigSubIntB(Tail(x), d \div LimbBase + (IF t < 0 THEN 1 ELSE 0))

BigSubInt(x, d) == BigNorm(BigSubIntB(x, d))

\* x mod 2^30, from the three low limbs
LowInt(x) ==
    (IF Len(x) >= 1 THEN x[1] ELSE 0)
    + (IF Len(x) >= 2 THEN x[2] * LimbBase ELSE 0)
    + (IF Len(x) >= 3 THEN x[3] * LimbBase * LimbBase ELSE 0)

\* bit number s of x (bit 0 is the lowest)
BitOf(x, s) ==
    IF s \div 10 + 1 > Len(x) THEN 0
    ELSE (x[s \div 10 + 1] \div 2^(s % 10)) % 2

\* Round x (plus a positive fraction when sticky) to 53 significant bits,
\* ties to even: IEEE-754 binary64 round-to-nearest-even.  For x < 2^83,
\* so that the discarded bits fit an integer.
Round53(x, sticky) ==
    LET s == BigBitLen(x) - 53
    IN  IF s <= 0 THEN x
        ELSE LET r == LowInt(x) % 2^s
                 half == 2^(s - 1)
                 up == r > half \/ (r = half /\ (sticky \/ BitOf(x, s) = 1))
             IN  IF up THEN BigAddInt(x, 2^s - r) ELSE BigSubInt(x, r)

\* The double a decimal literal pct/100 denotes, in units of 2^-56
\* (every literal used is >= 2^-4, so its double is a multiple of 2^-56).
ParsePercent(pct) ==
    LET scaled == BigDivSmall(BigShl(BigFromInt(pct), 80), 100)
    IN  BigShr(Round53(scaled.q, scaled.r # 0), 24)

\* The float literals of _generate_budget (0.40, 0.20, 0.15, 0.10, 0.08, 0.07),
\* parsed once, when the module is compiled.
FloatLiterals == [pct \in {40, 20, 15, 10, 8, 7} |-> ParsePercent(pct)]

DoubleOfPercent(pct) == FloatLiterals[pct]

\* int * float (base_budget * 0.40): the int converts exactly, the product is
\* rounded once; the result carries the sign of the int.
MulIntDouble(n, c) ==
    [neg |-> n < 0,
     mag |-> Round53(BigMulSmall(c, IF n < 0 THEN -n ELSE n), FALSE)]

\* An integer as an amount in units of 2^-56.
AmountOfInt(n) ==
    [neg |-> n < 0, mag |-> BigShl(BigFromInt(IF n < 0 THEN -n ELSE n), 56)]


\* The exact (real-number) sum of the magnitudes of a list of line items.
RECURSIVE SumValues(_)
SumValues(items) ==
    IF items = <<>> THEN <<>>
    ELSE BigAdd(Head(items).value.mag, SumValues(Tail(items)))

\* budget_distribution (ml_models.py:261-267)
BudgetDistribution(base_budget) ==
    [human_resources |-> MulIntDouble(base_budget, DoubleOfPercent(40)),
     equipment       |-> MulIntDouble(base_budget, DoubleOfPercent(20)),
     materials       |-> MulIntDouble(base_budget, DoubleOfPercent(15)),
     services        |-> MulIntDouble(base_budget, DoubleOfPercent(15)),
     indirect_costs  |-> MulIntDouble(base_budget, DoubleOfPercent(10))]

\* budget_items with "Material Didatico" costed at 0.08 instead of 0.07.
BudgetItemsMiscosted(base_budget) ==
    [human_resources |->
        << [description |-> "Coordenador do Projeto",
            value |-> MulIntDouble(base_budget, DoubleOfPercent(15))],
           [description |-> "Pesquisadores",
            value |-> MulIntDouble(base_budget, DoubleOfPercent(15))],
           [description |-> "Equipe de Apoio",
            value |-> MulIntDouble(base_budget, DoubleOfPercent(10))] >>,
     equipment |->
        << [description |-> "Equipamentos de Informatica",
            value |-> MulIntDouble(base_budget, DoubleOfPercent(10))],
           [description |-> "Equipamentos Especializados",
            value |-> MulIntDouble(base_budget, DoubleOfPercent(10))] >>,
     materials |->
        << [description |-> "Material de Consumo",
            value |-> MulIntDouble(base_budget, DoubleOfPercent(8))],
           [description |-> "Material Didatico",
            value |-> MulIntDouble(base_budget, DoubleOfPercent(8))] >>,
     services |->
        << [description |-> "Consultoria Especializada",
            value |-> MulIntDouble(base_budget, DoubleOfPercent(8))],
           [description |-> "Servicos de Terceiros",
            value |-> MulIntDouble(base_budget, DoubleOfPercent(7))] >>,
     indirect_costs |->
        << [description |-> "Custos Administrativos",
            value |-> MulIntDouble(base_budget, DoubleOfPercent(10))] >>]

\* budget_items (ml_models.py:270-291)
BudgetItems(base_budget) ==
    [human_resources |->
        << [description |-> "Coordenador do Projeto",
            value |-> MulIntDouble(base_budget, DoubleOfPercent(15))],
           [description |-> "Pesquisadores",
            value |-> MulIntDouble(base_budget, DoubleOfPercent(15))],
           [description |-> "Equipe de Apoio",
            value |-> MulIntDouble(base_budget, DoubleOfPercent(10))] >>,
     equipment |->
        << [description |-> "Equipamentos de Informatica",
            value |-> MulIntDouble(base_budget, DoubleOfPercent(10))],
           [description |-> "Equipamentos Especializados",
            value |-> MulIntDouble(base_budget, DoubleOfPercent(10))] >>,
     materials |->
        << [description |-> "Material de Consumo",
            value |-> MulIntDouble(base_budget, DoubleOfPercent(8))],
           [description |-> "Material Didatico",
            value |-> MulIntDouble(base_budget, DoubleOfPercent(7))] >>,
     services |->
        << [description |-> "Consultoria Especializada",
            value |-> MulIntDouble(base_budget, DoubleOfPercent(8))],
           [description |-> "Servicos de Terceiros",
            value |-> MulIntDouble(base_budget, DoubleOfPercent(7))] >>,
     indirect_costs |->
        << [description |-> "Custos Administrativos",
            value |-> MulIntDouble(base_budget, DoubleOfPercent(10))] >>]

BudgetCategories ==
    {"human_resources", "equipment", "materials", "services", "indirect_costs"}

\* ProjectPredictor._generate_budget; a string budget makes the products raise.
GenerateBudgetRaises(data) == data.budget.kind = "text"

\* _generate_budget as it would be if the seed were ignored.
GenerateBudgetIgnoringSeed(project_type, data) ==
    [total |-> DefaultBudget,
     distribution |-> BudgetDistribution(DefaultBudget),
     items |-> BudgetItems(DefaultBudget),
     currency |-> "BRL"]

GenerateBudget(project_type, data) ==
    LET base_budget == IF data.budget.kind = "absent" THEN DefaultBudget
                       ELSE data.budget.value
    IN  [total |-> base_budget,
         distribution |-> BudgetDistribution(base_budget),
         items |-> BudgetItems(base_budget),
         currency |-> "BRL"]

\* timelines.get(project_type, 18)  (ml_models.py:302-308)
TimelineDuration(project_type) ==
    CASE project_type = "research"    -> 24
      [] project_type = "development" -> 18
      [] project_type = "training"    -> 12
      [] OTHER                        -> DefaultDuration

PhaseNames ==
    << "Planejamento e Preparacao", "Execucao - Fase 1", "Execucao - Fase 2",
       "Validacao e Testes", "Implementacao Final", "Avaliacao e Encerramento" >>

\* _generate_timeline with every phase starting in the month the previous
\* one ends (the "+ 1" of start_month dropped).
GenerateTimelineAbutting(project_type) ==
    LET duration == TimelineDuration(project_type)
        phase_duration == duration \div NumPhases
    IN  [k \in 1..Len(PhaseNames) |->
            [phase |-> PhaseNames[k],
             start_month |-> (k - 1) * phase_duration,
             end_month |-> k * phase_duration,
             deliverables |-> << <<"Relatorio de", PhaseNames[k]>>,
                                 <<"Indicadores de", PhaseNames[k]>>,
                                 <<"Documentacao de", PhaseNames[k]>> >>]]

\* _generate_timeline with months counted from 0: phase i runs from
\* i * phase_duration to (i + 1) * phase_duration - 1.
GenerateTimelineFromZero(project_type) ==
    LET duration == TimelineDuration(project_type)
        phase_duration == duration \div NumPhases
    IN  [k \in 1..Len(PhaseNames) |->
            [phase |-> PhaseNames[k],
             start_month |-> (k - 1) * phase_duration,
             end_month |-> k * phase_duration - 1,
             deliverables |-> << <<"Relatorio de", PhaseNames[k]>>,
                                 <<"Indicadores de", PhaseNames[k]>>,
                                 <<"Documentacao de", PhaseNames[k]>> >>]]

\* ProjectPredictor._generate_timeline; enumerate() counts from 0, the
\* sequence index k here is i + 1.
GenerateTimeline(project_type) ==
    LET duration == TimelineDuration(project_type)
        phase_duration == duration \div NumPhases
    IN  [k \in 1..Len(PhaseNames) |->
            [phase |-> PhaseNames[k],
             start_month |-> (k - 1) * phase_duration + 1,
             end_month |-> k * phase_duration,
             deliverables |-> << <<"Relatorio de", PhaseNames[k]>>,
                                 <<"Indicadores de", PhaseNames[k]>>,
                                 <<"Documentacao de", PhaseNames[k]>> >>]]

\* "id": f"proj_{datetime.now().timestamp()}": the id is the clock reading.
ProjectId(now) == now

NoStructure ==
    [id |-> -1, type |-> "", budget |-> GenerateBudget("", [budget |-> [kind |-> "number", value |-> 0]]),
     timeline |-> <<>>]

\* ProjectPredictor.generate_project_structure
GenerateProjectStructure(project_type, initial_data) ==
    /\ Len(issued_ids) < MaxCalls
    /\ IF GenerateBudgetRaises(initial_data)
       THEN /\ synth_status' = "raised"
            /\ UNCHANGED <<issued_ids, project_structure>>
       ELSE LET structure == [id |-> ProjectId(clock),
                              type |-> project_type,
                              budget |-> GenerateBudget(project_type, initial_data),
                              timeline |-> GenerateTimeline(project_type)]
            IN  /\ project_structure' = structure
                /\ issued_ids' = Append(issued_ids, structure.id)
                /\ synth_status' = "returned"
    /\ UNCHANGED <<clock, fbVars, biasVars, extVars>>

Synthesize ==
    \E project_type \in ProjectTypes, b \in SeedBudgets :
        GenerateProjectStructure(project_type, [budget |-> b])

\* Time passes between two readings of the clock, or does not.
Tick ==
    /\ clock < MaxClock
    /\ clock' = clock + 1
    /\ UNCHANGED <<issued_ids, project_structure, synth_status, fbVars, biasVars,
                   extVars>>

InitSynth ==
    /\ clock = 0
    /\ issued_ids = <<>>
    /\ project_structure = NoStructure
    /\ synth_status = "none"

(***************************************************************************)
(* Bias detector (bias_detector.py).                                       *)
(*                                                                         *)
(* Rates and pattern scores are in thousandths (0.175 is 175); bias_score, *)
(* a mean over one to four scores, is in units of 1/12000 so that the      *)
(* division is exact.  project_data is Dict[str, Any]: a field is given    *)
(* with its JSON shape where the detectors depend on it.                   *)
(***************************************************************************)
InstitutionTypes ==
    {"", "university", "hospital", "ngo", "private", "school", "<list>"}

Regions ==
    {"", "sudeste", "Sudeste", "sul", "nordeste", "centro-oeste", "norte",
     "exterior", "<null>"}

\* project_data["objectives"]: a dict with that many "specific" entries, or a list
ObjectivesInputs ==
    {[shape |-> "dict", specific |-> 0], [shape |-> "dict", specific |-> 6],
     [shape |-> "list", specific |-> 0]}

\* project_data["budget"]: a dict whose "total" is absent, a number or a
\* string, or a bare number instead of a dict
BudgetInputs ==
    {[shape |-> "dict", kind |-> "absent", total |-> 0],
     [shape |-> "dict", kind |-> "text", total |-> 0],
     [shape |-> "number", kind |-> "absent", total |-> 0]}
    \cup [shape : {"dict"}, kind : {"number"},
          total : {-1, 0, 100000, 500000, 999999, 1000000, 1000001}]

ProjectInputs ==
    [institution_type : InstitutionTypes, region : Regions,
     objectives : ObjectivesInputs, budget : BudgetInputs,
     timeline : {6, 9}, team : {5, 11}]

\* str.lower() on the regions above
Lower(str) ==
    CASE str = "Sudeste" -> "sudeste"
      [] OTHER -> str

\* approval_rates (bias_detector.py:74-79)
ApprovalRates ==
    [university |-> 750, hospital |-> 700, ngo |-> 450, private |-> 400]

\* regional_distribution (bias_detector.py:107-113)
RegionalDistribution ==
    ("sudeste" :> 450) @@ ("sul" :> 250) @@ ("nordeste" :> 150)
    @@ ("centro-oeste" :> 100) @@ ("norte" :> 50)

\* budget_ranges (bias_detector.py:173-178); the last range has no upper end
BudgetRanges ==
    << [min_val |-> 0,       max_val |-> 100000,  bounded |-> TRUE,  approval_rate |-> 350],
       [min_val |-> 100000,  max_val |-> 500000,  bounded |-> TRUE,  approval_rate |-> 650],
       [min_val |-> 500000,  max_val |-> 1000000, bounded |-> TRUE,  approval_rate |-> 700],
       [min_val |-> 1000000, max_val |-> 0,       bounded |-> FALSE, approval_rate |-> 450] >>

Abs(x) == IF x < 0 THEN -x ELSE x

RECURSIVE SumOver(_, _)
SumOver(f, S) ==
    IF S = {} THEN 0
    ELSE LET x == CHOOSE y \in S : TRUE IN f[x] + SumOver(f, S \ {x})

RECURSIVE SumScores(_)
SumScores(ps) == IF ps = <<>> THEN 0 ELSE Head(ps).score + SumScores(Tail(ps))

NotDetected(type) ==
    [type |-> type, detected |-> FALSE, score |-> 0, description |-> <<>>]

\* `institution_type in approval_rates` hashes the value: a list raises TypeError
DetectInstitutionalRaises(project_data) == project_data.institution_type = "<list>"

\* BiasDetector._detect_institutional_bias
DetectInstitutionalBias(project_data) ==
    LET institution_type == project_data.institution_type
        avg_approval == SumOver(ApprovalRates, DOMAIN ApprovalRates)
                            \div Cardinality(DOMAIN ApprovalRates)
    IN  IF institution_type \in DOMAIN ApprovalRates
           /\ Abs(ApprovalRates[institution_type] - avg_approval) > 150
        THEN [type |-> "institutional", detected |-> TRUE,
              score |-> Abs(ApprovalRates[institution_type] - avg_approval),
              description |->
                  <<"Instituicoes do tipo", institution_type,
                    IF ApprovalRates[institution_type] > avg_approval
                    THEN "superior" ELSE "inferior">>]
        ELSE NotDetected("institutional")

\* region.lower() on None raises AttributeError
DetectGeographicRaises(project_data) == project_data.region = "<null>"

\* The double nearest to num/den (0 < num/den < 1/2), in units of 2^-60: what a
\* decimal literal such as 0.45 denotes and what 1 / 5 evaluates to.
DoubleOfRatio(num, den) ==
    LET scaled == BigDivSmall(BigShl(BigFromInt(num), 84), den)
    IN  BigShr(Round53(scaled.q, scaled.r # 0), 24)

\* regional_distribution (bias_detector.py:107-113) as the doubles it holds
RegionalDistributionDouble ==
    ("sudeste" :> DoubleOfRatio(45, 100)) @@ ("sul" :> DoubleOfRatio(25, 100))
    @@ ("nordeste" :> DoubleOfRatio(15, 100))
    @@ ("centro-oeste" :> DoubleOfRatio(10, 100))
    @@ ("norte" :> DoubleOfRatio(5, 100))

\* expected_distribution = 1 / len(regional_distribution), as a double
ExpectedDistributionDouble ==
    DoubleOfRatio(1, Cardinality(DOMAIN RegionalDistributionDouble))

\* The literal 0.1 of `abs(actual - expected_distribution) > 0.1`
GeographicThresholdDouble == DoubleOfRatio(10, 100)

\* abs(actual - expected_distribution): the exact difference of the two
\* doubles, rounded to binary64
GeographicDeviations ==
    [region \in DOMAIN RegionalDistributionDouble |->
        Round53(BigDist(RegionalDistributionDouble[region],
                        ExpectedDistributionDouble), FALSE)]

GeographicDeviation(region) == GeographicDeviations[region]

\* bias_result['score'] of _detect_geographic_bias as the double it is, in
\* units of 2^-60 (<<>> is 0.0)
GeographicScore(project_data) ==
    LET region == Lower(project_data.region)
    IN  IF region \in DOMAIN RegionalDistributionDouble
           /\ BigCmp(GeographicDeviation(region), GeographicThresholdDouble) > 0
        THEN GeographicDeviation(region)
        ELSE <<>>

\* _detect_geographic_bias flagging a deviation of 0.1 or more (>= for >).
DetectGeographicBiasInclusive(project_data) ==
    LET region == project_data.region
        expected_distribution == 1000 \div Cardinality(DOMAIN RegionalDistribution)
    IN  IF Lower(region) \in DOMAIN RegionalDistribution
           /\ Abs(RegionalDistribution[Lower(region)] - expected_distribution) >= 100
        THEN [type |-> "geographic", detected |-> TRUE,
              score |-> Abs(RegionalDistribution[Lower(region)] - expected_distribution),
              description |->
                  <<"Regiao", region,
                    IF RegionalDistribution[Lower(region)] > expected_distribution
                    THEN "sobre" ELSE "sub">>]
        ELSE NotDetected("geographic")

\* BiasDetector._detect_geographic_bias
DetectGeographicBias(project_data) ==
    LET region == project_data.region
        expected_distribution == 1000 \div Cardinality(DOMAIN RegionalDistribution)
    IN  IF Lower(region) \in DOMAIN RegionalDistribution
           /\ Abs(RegionalDistribution[Lower(region)] - expected_distribution) > 100
        THEN [type |-> "geographic", detected |-> TRUE,
              score |-> Abs(RegionalDistribution[Lower(region)] - expected_distribution),
              description |->
                  <<"Regiao", region,
                    IF RegionalDistribution[Lower(region)] > expected_distribution
                    THEN "sobre" ELSE "sub">>]
        ELSE NotDetected("geographic")

\* project_data.get('budget', {}).get('total', 0)
BudgetTotal(project_data) ==
    IF project_data.budget.kind = "number" THEN project_data.budget.total ELSE 0

\* .get on a list or on a number raises AttributeError; str > int raises TypeError
DetectComplexityRaises(project_data) ==
    \/ project_data.objectives.shape # "dict"
    \/ project_data.budget.shape # "dict"
    \/ project_data.budget.kind = "text"

\* BiasDetector._detect_complexity_bias
DetectComplexityBias(project_data) ==
    LET complexity_score ==
            (IF project_data.objectives.specific > 5 THEN 1 ELSE 0)
          + (IF BudgetTotal(project_data) > 1000000 THEN 1 ELSE 0)
          + (IF project_data.timeline > 8 THEN 1 ELSE 0)
          + (IF project_data.team > 10 THEN 1 ELSE 0)
    IN  IF complexity_score >= 3
        THEN [type |-> "complexity", detected |-> TRUE, score |-> 300,
              description |-> <<"Projetos com alta complexidade">>]
        ELSE NotDetected("complexity")

DetectBudgetRaises(project_data) ==
    \/ project_data.budget.shape # "dict"
    \/ project_data.budget.kind = "text"

\* The range test with the upper end included.
InRangeClosed(budget, range) ==
    range.min_val <= budget /\ (~range.bounded \/ budget <= range.max_val)

\* min_val <= budget < max_val, max_val being float('inf') in the last range
InRange(budget, range) ==
    range.min_val <= budget /\ (~range.bounded \/ budget < range.max_val)

\* _detect_budget_bias as it would be if the approval rate of a range were
\* taken from the learned history once there is one (every learned outcome
\* here is an approval, a rate of 1).
DetectBudgetBiasLearned(project_data) ==
    LET budget == BudgetTotal(project_data)
        hits == {i \in 1..Len(BudgetRanges) : InRange(budget, BudgetRanges[i])}
    IN  IF hits = {} THEN NotDetected("budget")
        ELSE LET range == BudgetRanges[CHOOSE i \in hits : \A j \in hits : i <= j]
                 approval_rate == IF historical_data = <<>>
                                  THEN range.approval_rate ELSE 1000
             IN  IF approval_rate < 400 \/ approval_rate > 600
                 THEN [type |-> "budget", detected |-> TRUE,
                       score |-> Abs(approval_rate - 500),
                       description |->
                           <<"Projetos na faixa de", range.min_val, range.max_val,
                             range.bounded,
                             IF approval_rate > 600 THEN "alta" ELSE "baixa">>]
                 ELSE NotDetected("budget")

\* BiasDetector._detect_budget_bias: the loop stops at the first range that
\* holds the total
DetectBudgetBias(project_data) ==
    LET budget == BudgetTotal(project_data)
        hits == {i \in 1..Len(BudgetRanges) : InRange(budget, BudgetRanges[i])}
    IN  IF hits = {} THEN NotDetected("budget")
        ELSE LET range == BudgetRanges[CHOOSE i \in hits : \A j \in hits : i <= j]
             IN  IF range.approval_rate < 400 \/ range.approval_rate > 600
                 THEN [type |-> "budget", detected |-> TRUE,
                       score |-> Abs(range.approval_rate - 500),
                       description |->
                           <<"Projetos na faixa de", range.min_val, range.max_val,
                             range.bounded,
                             IF range.approval_rate > 600 THEN "alta" ELSE "baixa">>]
                 ELSE NotDetected("budget")

\* The mapping with no text for a budget pattern.
RecommendationSkippingBudget(type) ==
    CASE type = "institutional" -> <<"Considere revisar os criterios de avaliacao">>
      [] type = "geographic"    -> <<"Ajuste o projeto para alinhar com a distribuicao geografica">>
      [] type = "complexity"    -> <<"Simplifique a estrutura do projeto">>
      [] OTHER                  -> <<>>

\* BiasDetector._generate_bias_recommendations
RecommendationFor(type) ==
    CASE type = "institutional" -> <<"Considere revisar os criterios de avaliacao">>
      [] type = "geographic"    -> <<"Ajuste o projeto para alinhar com a distribuicao geografica">>
      [] type = "complexity"    -> <<"Simplifique a estrutura do projeto">>
      [] type = "budget"        -> <<"Revise o orcamento">>
      [] OTHER                  -> <<>>

RECURSIVE GenerateBiasRecommendations(_)
GenerateBiasRecommendations(patterns) ==
    IF patterns = <<>> THEN <<>>
    ELSE RecommendationFor(Head(patterns).type)
         \o GenerateBiasRecommendations(Tail(patterns))

\* np.random.uniform(0.7, 0.9), (0.75, 0.95), (0.8, 1.2): two samples of each
FairnessSamples ==
    [demographic_parity : {700, 899}, equal_opportunity : {750, 949},
     disparate_impact : {800, 1199}]

NoFairness ==
    [demographic_parity |-> 0, equal_opportunity |-> 0, disparate_impact |-> 0]

NoAnalysis ==
    [bias_detected |-> FALSE, bias_score |-> 0, patterns |-> <<>>,
     recommendations |-> <<>>, fairness_metrics |-> NoFairness]

IsDetected(bias_result) == bias_result.detected

\* bias_score as the mean over all four results, flagged or not.
BiasScoreOverAll(results) ==
    IF SelectSeq(results, IsDetected) = <<>> THEN 0
    ELSE (12 * SumScores(results)) \div Len(results)

\* The bias_score analyze computes from the four results:
\* np.mean of the scores of the appended patterns.
BiasScore(results) ==
    LET patterns == SelectSeq(results, IsDetected)
    IN  IF patterns = <<>> THEN 0
        ELSE (12 * SumScores(patterns)) \div Len(patterns)

\* BiasDetector.analyze: the detectors are awaited one after the other, with
\* no try/except around any of them.
AnalyzeRaises(project_data) ==
    \/ DetectInstitutionalRaises(project_data)
    \/ DetectGeographicRaises(project_data)
    \/ DetectComplexityRaises(project_data)
    \/ DetectBudgetRaises(project_data)

Analyze(project_data, metrics) ==
    LET results == << DetectInstitutionalBias(project_data),
                      DetectGeographicBias(project_data),
                      DetectComplexityBias(project_data),
                      DetectBudgetBias(project_data) >>
        patterns == SelectSeq(results, IsDetected)
    IN  [results |-> results,
         report |->
            [bias_detected |-> patterns # <<>>,
             bias_score |-> BiasScore(results),
             patterns |-> patterns,
             recommendations |-> IF patterns # <<>>
                                 THEN GenerateBiasRecommendations(patterns)
                                 ELSE <<>>,
             fairness_metrics |-> metrics]]

\* What a caller can compare between two calls, fairness_metrics left out,
\* with the number of entries the detector had been fitted on when it answered.
Answer(status, report) ==
    [status |-> status, bias_detected |-> report.bias_detected,
     patterns |-> report.patterns, recommendations |-> report.recommendations,
     fitted_on |-> bias_fitted_on]

\* POST /api/v1/detect-bias: one call of bias_detector.analyze on the
\* submitted project_data.
DetectBias(metrics) ==
    /\ IF AnalyzeRaises(analysis_input)
       THEN /\ analysis_status' = "raised"
            /\ analysis' = NoAnalysis
            /\ detector_results' = <<>>
            /\ geographic_score' = <<>>
       ELSE /\ analysis_status' = "returned"
            /\ analysis' = Analyze(analysis_input, metrics).report
            /\ detector_results' = Analyze(analysis_input, metrics).results
            /\ geographic_score' = GeographicScore(analysis_input)
    /\ observed' = observed \cup {Answer(analysis_status', analysis')}
    /\ UNCHANGED <<analysis_input, fbVars, synthVars, extVars>>

AnalyzeRequest == \E metrics \in FairnessSamples : DetectBias(metrics)

NoInput ==
    [institution_type |-> "", region |-> "",
     objectives |-> [shape |-> "dict", specific |-> 0],
     budget |-> [shape |-> "dict", kind |-> "absent", total |-> 0],
     timeline |-> 0, team |-> 0]

InitBias(inputs) ==
    /\ analysis_input \in inputs
    /\ analysis_status = "none"
    /\ analysis = NoAnalysis
    /\ detector_results = <<>>
    /\ geographic_score = <<>>
    /\ observed = {}

SubmitFeedback == \E fb \in FeedbackInputs : ProcessFeedback(fb)

InitFeedback ==
    /\ historical_data = <<>>
    /\ bias_fitted_on = 0
    /\ fb_requests = 0
    /\ fb_success = 0
    /\ fb_other = 0
    /\ fb_response = NoResponse
    /\ fb_retrains = 0
    /\ fb_last = [feedback_type |-> "", retrain_entered |-> FALSE]
    /\ background_tasks = 0

(***************************************************************************)
(* Section validation (nlp_engine.py) and the conformity report (main.py). *)
(*                                                                         *)
(* A content is given by what validate_section reads of it: its number of  *)
(* words, how many of the first ten guideline keywords it lacks, and the   *)
(* label the sentiment analyzer gives its first 512 characters.  Scores    *)
(* are Python floats: magnitudes in units of 2^-60, every operation        *)
(* rounded to binary64.                                                    *)
(***************************************************************************)
Sections == {"justification", "objectives", "methodology"}

\* min_lengths (nlp_engine.py:382-386)
MinLengths ==
    [justification |-> 200, objectives |-> 50, methodology |-> 150]

SentimentLabels == {"1 star", "3 stars"}

\* The double nearest to tenths/10 (0.1 to 0.9), in units of 2^-60
ScoreLiteral(tenths) ==
    LET scaled == BigDivSmall(BigShl(BigFromInt(tenths), 82), 10)
    IN  BigShr(Round53(scaled.q, scaled.r # 0), 22)

ScoreLiterals == [tenths \in 1..9 |-> ScoreLiteral(tenths)]

\* 1.0 in units of 2^-60
ScoreOne == BigShl(BigFromInt(1), 60)

\* x + y of two non-negative doubles, rounded
AddDouble(x, y) == Round53(BigAdd(x, y), FALSE)

\* x / n of a non-negative double by an int 1..3, rounded
DivDouble(x, n) ==
    IF x = <<>> THEN <<>>
    ELSE LET scaled == BigDivSmall(BigShl(x, 20), n)
         IN  BigShr(Round53(scaled.q, scaled.r # 0), 20)

\* The deduction with 0.1 taken off once for any number of missing keywords.
DeductionPerIssue(section, content) ==
    LET short == section \in DOMAIN MinLengths /\ content.words < MinLengths[section]
        d1 == IF short THEN ScoreLiterals[2] ELSE <<>>
        d2 == IF content.missing > 0 THEN AddDouble(d1, ScoreLiterals[1]) ELSE d1
        d3 == IF content.label \in {"1 star", "2 stars"}
              THEN AddDouble(d2, ScoreLiterals[1]) ELSE d2
    IN  d3

\* The amount taken off validation_result["score"] by the three checks, in
\* the order of the code: score -= 0.2, score -= 0.1 * len(missing_keywords),
\* score -= 0.1 (the score stays <= 0, its magnitude is kept).
Deduction(section, content) ==
    LET short == section \in DOMAIN MinLengths /\ content.words < MinLengths[section]
        d1 == IF short THEN ScoreLiterals[2] ELSE <<>>
        d2 == IF content.missing > 0
              THEN AddDouble(d1, Round53(BigMulSmall(ScoreLiterals[1], content.missing),
                                         FALSE))
              ELSE d1
        d3 == IF content.label \in {"1 star", "2 stars"}
              THEN AddDouble(d2, ScoreLiterals[1]) ELSE d2
    IN  d3

\* max(0, min(1, 1 + score))
ClampedScore(deduction) ==
    IF BigCmp(deduction, ScoreOne) >= 0 THEN <<>>
    ELSE Round53(BigSub(ScoreOne, deduction), FALSE)

\* The issue types validate_section appends, in order.
IssuesOf(section, content) ==
    (IF section \in DOMAIN MinLengths /\ content.words < MinLengths[section]
     THEN <<"length">> ELSE <<>>)
    \o (IF content.missing > 0 THEN <<"keywords">> ELSE <<>>)
    \o (IF content.label \in {"1 star", "2 stars"} THEN <<"tone">> ELSE <<>>)

IsSuggested(issue) == issue \in {"length", "keywords"}

\* NLPEngine.validate_section
ValidateSection(section, content) ==
    [section |-> section,
     score |-> ClampedScore(Deduction(section, content)),
     issues |-> IssuesOf(section, content),
     suggestions |-> SelectSeq(IssuesOf(section, content), IsSuggested)]

NoValidation ==
    [section |-> "", score |-> <<>>, issues |-> <<>>, suggestions |-> <<>>]

\* Contents of a section: just below and at its minimum length.
ContentsOf(section) ==
    [words : {MinLengths[section] - 1, MinLengths[section]},
     missing : {0, 1, 2, 3, 4, 7, 10},
     label : SentimentLabels]

\* One call of validate_section.
ValidateSectionCall(section, content) ==
    /\ validation_result' = ValidateSection(section, content)
    /\ validated_content' = content
    /\ previous_result' = validation_result
    /\ UNCHANGED <<conformity_input, conformity_status, conformity_results,
                   conformity_report, outsideVal>>

Validate ==
    \E section \in Sections : \E content \in ContentsOf(section) :
        ValidateSectionCall(section, content)

\* sum(r.get("score", 0) for r in validation_results): from the int 0, left
\* to right
RECURSIVE SumScoresDouble(_, _)
SumScoresDouble(results, acc) ==
    IF results = <<>> THEN acc
    ELSE SumScoresDouble(Tail(results), AddDouble(acc, Head(results).score))

\* overall_score (main.py:260-263)
OverallScore(results) ==
    IF results # <<>>
    THEN DivDouble(SumScoresDouble(results, <<>>), Len(results))
    ELSE <<>>

\* overall_score > 0.8 in place of >=.
CompliantStrict(overall_score) == BigCmp(overall_score, ScoreLiterals[8]) > 0

\* overall_score >= 0.8 (main.py:278)
Compliant(overall_score) == BigCmp(overall_score, ScoreLiterals[8]) >= 0

RECURSIVE ValidateAll(_)
ValidateAll(items) ==
    IF items = <<>> THEN <<>>
    ELSE <<ValidateSection(Head(items).section, Head(items).content)>>
         \o ValidateAll(Tail(items))

RECURSIVE AllIssues(_)
AllIssues(results) ==
    IF results = <<>> THEN <<>>
    ELSE Head(results).issues \o AllIssues(Tail(results))

NoReport == [compliant |-> FALSE, score |-> <<>>, issues |-> <<>>]

\* POST /api/v1/validate-conformity on the submitted project_data.
ValidateConformity ==
    /\ conformity_status' = "returned"
    /\ conformity_results' = ValidateAll(conformity_input)
    /\ conformity_report' =
          [compliant |-> Compliant(OverallScore(conformity_results')),
           score |-> OverallScore(conformity_results'),
           issues |-> AllIssues(conformity_results')]
    /\ UNCHANGED <<conformity_input, validation_result, validated_content,
                   previous_result, outsideVal>>

\* Contents with the scores 1, 0.9, 0.8, 0.7 and 0.
ConformityContents(section) ==
    {[words |-> MinLengths[section], missing |-> 0, label |-> "3 stars"],
     [words |-> MinLengths[section], missing |-> 1, label |-> "3 stars"],
     [words |-> MinLengths[section] - 1, missing |-> 0, label |-> "3 stars"],
     [words |-> MinLengths[section] - 1, missing |-> 0, label |-> "1 star"],
     [words |-> MinLengths[section], missing |-> 10, label |-> "3 stars"]}

\* The items of project_data that are sections, in the order of the dict:
\* up to three, each section at most once.
ConformityInputs ==
    {<<>>}
    \cup {<<[section |-> s1, content |-> c1]>> :
             s1 \in Sections, c1 \in UNION {ConformityContents(s) : s \in Sections}}
    \cup UNION {UNION {{ <<[section |-> s1, content |-> c1],
                           [section |-> s2, content |-> c2]>> :
                           c1 \in ConformityContents(s1),
                           c2 \in ConformityContents(s2)} :
                        s2 \in Sections \ {s1}} : s1 \in Sections}
    \cup UNION {UNION {{ <<[section |-> s1, content |-> c1],
                           [section |-> s2, content |-> c2],
                           [section |-> CHOOSE s3 \in Sections : s3 \notin {s1, s2},
                            content |-> c3]>> :
                           c1 \in ConformityContents(s1),
                           c2 \in ConformityContents(s2),
                           c3 \in ConformityContents(
                                     CHOOSE s3 \in Sections : s3 \notin {s1, s2})} :
                        s2 \in Sections \ {s1}} : s1 \in Sections}

InitValidation(inputs) ==
    /\ validation_result = NoValidation
    /\ validated_content = [words |-> 0, missing |-> 0, label |-> ""]
    /\ previous_result = NoValidation
    /\ conformity_input \in inputs
    /\ conformity_status = "none"
    /\ conformity_results = <<>>
    /\ conformity_report = NoReport

(***************************************************************************)
(* improve_text.  A text is its sentences (as spaCy splits them) and the   *)
(* number of detached punctuation tokens (" ," or " .") it holds: split()  *)
(* counts such a token as a word and _clean_text removes it.  A sentence   *)
(* is given by its number of words, the guideline keywords it contains,    *)
(* the label the sentiment analyzer gives a text that opens with it, and   *)
(* whether its embedding is closer than 0.85 to a sentence of the          *)
(* reference.  The guidelines passed to validate_section are a parameter   *)
(* of the call; here they have the two keywords of GuidelineKeywords.      *)
(***************************************************************************)
GuidelineKeywords == {"inclusao", "acessibilidade"}

SentenceSet ==
    [words : {5, 50, 200}, keywords : SUBSET GuidelineKeywords,
     label : SentimentLabels, like_reference : BOOLEAN]

TextSet ==
    [sentences : {<<a>> : a \in SentenceSet}
                 \cup {<<a, b>> : a \in SentenceSet, b \in {c \in SentenceSet : c.words = 5}},
     detached : {0, 1}, enhanced : BOOLEAN]

RECURSIVE SumWords(_)
SumWords(sentences) ==
    IF sentences = <<>> THEN 0 ELSE Head(sentences).words + SumWords(Tail(sentences))

\* What validate_section reads of a text
ContentOf(text) ==
    [words |-> SumWords(text.sentences) + text.detached,
     missing |-> Cardinality({k \in GuidelineKeywords :
                    \A i \in 1..Len(text.sentences) : k \notin text.sentences[i].keywords}),
     label |-> IF text.sentences = <<>> THEN "3 stars" ELSE text.sentences[1].label]

\* len(sent.split()) of the i-th sentence: a detached token is in the first
SplitLength(text, i) ==
    text.sentences[i].words + (IF i = 1 THEN text.detached ELSE 0)

\* The original sentences _merge_texts keeps: unique and of more than 5 words
KeptSentence(text, i) ==
    ~text.sentences[i].like_reference /\ SplitLength(text, i) > 5

RECURSIVE KeptFrom(_, _)
KeptFrom(text, i) ==
    IF i > Len(text.sentences) THEN <<>>
    ELSE (IF KeptSentence(text, i) THEN <<text.sentences[i]>> ELSE <<>>)
         \o KeptFrom(text, i + 1)

\* NLPEngine._merge_texts followed by _clean_text
MergeTexts(original, reference, field_type) ==
    [sentences |->
        (IF reference.sentences # <<>> /\ field_type = "justification"
         THEN <<reference.sentences[1]>> ELSE <<>>)
        \o KeptFrom(original, 1)
        \o (IF reference.sentences # <<>>
               /\ field_type \in {"justification", "objectives"}
            THEN <<reference.sentences[Len(reference.sentences)]>> ELSE <<>>),
     detached |-> 0,
     enhanced |-> original.enhanced /\ KeptFrom(original, 1) = original.sentences]

\* Words and keywords of the three phrases _enhance_text appends for a field
\* (nlp_engine.py:295-311), as one closing sentence
Enhancement(field_type) ==
    [words |-> CASE field_type = "justification" -> 16
                 [] field_type = "objectives" -> 15
                 [] OTHER -> 12,
     keywords |-> IF field_type = "justification" THEN GuidelineKeywords ELSE {},
     label |-> "3 stars", like_reference |-> FALSE]

\* NLPEngine._enhance_text followed by _clean_text: the phrases are appended
\* unless the text holds them already
EnhanceText(text, field_type) ==
    [sentences |-> IF text.enhanced THEN text.sentences
                   ELSE text.sentences \o <<Enhancement(field_type)>>,
     detached |-> 0,
     enhanced |-> TRUE]

\* context["approved_projects"]: no example with this field, an example whose
\* similarity is between 0.5 and 0.95, or an example whose field is not a
\* text, on which encode raises
ReferenceTexts ==
    {[sentences |-> <<[words |-> 10, keywords |-> {}, label |-> "3 stars",
                       like_reference |-> FALSE]>>,
      detached |-> 0, enhanced |-> FALSE],
     [sentences |-> <<[words |-> 10, keywords |-> GuidelineKeywords,
                       label |-> "1 star", like_reference |-> FALSE]>>,
      detached |-> 0, enhanced |-> FALSE]}

NoText == [sentences |-> <<>>, detached |-> 0, enhanced |-> FALSE]

Contexts ==
    {[kind |-> "none", reference |-> NoText], [kind |-> "broken", reference |-> NoText]}
    \cup [kind : {"similar"}, reference : ReferenceTexts]

ImproveInputs == [text : TextSet, context : Contexts, field_type : Sections]

\* NLPEngine.improve_text: the path taken and the text returned
ImproveText(text, context, field_type) ==
    CASE context.kind = "similar" ->
            [path |-> "merge",
             improved_text |-> MergeTexts(text, context.reference, field_type)]
      [] context.kind = "none" ->
            [path |-> "enhance", improved_text |-> EnhanceText(text, field_type)]
      [] OTHER ->
            [path |-> "error", improved_text |-> text]

NoImprovement ==
    [path |-> "none", improved_text |-> NoText,
     original |-> NoValidation, improved |-> NoValidation]

\* improve_text on the input, then validate_section on both texts.
ImproveAndValidate ==
    /\ improvement.path = "none"
    /\ LET result == ImproveText(improve_input.text, improve_input.context,
                                 improve_input.field_type)
       IN  improvement' =
              [path |-> result.path,
               improved_text |-> result.improved_text,
               original |-> ValidateSection(improve_input.field_type,
                                            ContentOf(improve_input.text)),
               improved |-> ValidateSection(improve_input.field_type,
                                            ContentOf(result.improved_text))]
    /\ UNCHANGED <<improve_input, outsideText>>

NoImproveInput ==
    [text |-> NoText, context |-> [kind |-> "none", reference |-> NoText],
     field_type |-> "justification"]

InitText(inputs) ==
    /\ improve_input \in inputs
    /\ improvement = NoImprovement

(***************************************************************************)
(* The guideline cache.  load_current_guidelines is a coroutine without a  *)
(* suspension point: once the event loop runs it, the test of the cache,   *)
(* the construction of the dict and the store happen before any other      *)
(* coroutine runs.  A caller is pending from the moment its request is     *)
(* accepted until the loop runs it; cleanup may run between any two.       *)
(***************************************************************************)
MaxLoaders == 3
MaxClears == 2

Loaders == 1..MaxLoaders

\* The dict built at nlp_engine.py:443-461
CurrentGuidelines ==
    [version |-> "2024.1",
     keywords |-> <<"inclusao", "acessibilidade", "deficiencia", "reabilitacao",
                    "tecnologia assistiva", "autonomia", "qualidade de vida",
                    "direitos", "cidadania", "participacao social">>,
     requirements |-> <<"Atender pessoas com deficiencia",
                        "Seguir normas de acessibilidade",
                        "Apresentar indicadores mensuraveis",
                        "Garantir sustentabilidade do projeto">>,
     restrictions |-> <<"Nao discriminar por tipo de deficiencia",
                        "Nao exceder limite orcamentario estabelecido",
                        "Nao duplicar servicos existentes">>]

\* An empty dict
EmptyCache == [key \in {} |-> CurrentGuidelines]

\* A cache test that never finds the entry.
CacheMiss(cache) == FALSE

\* "current" in self.guidelines_cache
CacheHit(cache) == "current" \in DOMAIN cache

NoGuidelines == [received |-> FALSE, guidelines |-> <<>>, after_clear |-> 0]

\* A request that will load the guidelines is accepted.
CallLoad(caller) ==
    /\ loader_pc[caller] = "idle"
    /\ loader_pc' = [loader_pc EXCEPT ![caller] = "pending"]
    /\ UNCHANGED <<guidelines_cache, cache_populations, cache_clears,
                   loader_result, outsideCache>>

\* NLPEngine.load_current_guidelines, run for one pending caller
LoadCurrentGuidelines(caller) ==
    /\ loader_pc[caller] = "pending"
    /\ IF CacheHit(guidelines_cache)
       THEN /\ loader_result' =
                  [loader_result EXCEPT ![caller] =
                      [received |-> TRUE,
                       guidelines |-> guidelines_cache["current"],
                       after_clear |-> cache_clears]]
            /\ UNCHANGED <<guidelines_cache, cache_populations>>
       ELSE /\ guidelines_cache' =
                  [key \in DOMAIN guidelines_cache \cup {"current"} |->
                      IF key = "current" THEN CurrentGuidelines
                      ELSE guidelines_cache[key]]
            /\ cache_populations' = cache_populations + 1
            /\ loader_result' =
                  [loader_result EXCEPT ![caller] =
                      [received |-> TRUE,
                       guidelines |-> CurrentGuidelines,
                       after_clear |-> cache_clears]]
    /\ loader_pc' = [loader_pc EXCEPT ![caller] = "idle"]
    /\ UNCHANGED <<cache_clears, outsideCache>>

\* NLPEngine.cleanup: self.guidelines_cache.clear()
Cleanup ==
    /\ cache_clears < MaxClears
    /\ guidelines_cache' = EmptyCache
    /\ cache_populations' = 0
    /\ cache_clears' = cache_clears + 1
    /\ UNCHANGED <<loader_pc, loader_result, outsideCache>>

InitCache ==
    /\ guidelines_cache = EmptyCache
    /\ cache_populations = 0
    /\ cache_clears = 0
    /\ loader_pc = [caller \in Loaders |-> "idle"]
    /\ loader_result = [caller \in Loaders |-> NoGuidelines]

(***************************************************************************)
(* Loading of the scoring models and the readiness check.  load_models     *)
(* assigns the six attributes in order and sets models_loaded after the    *)
(* last one; any of the loads may raise, which ends the call with the      *)
(* attributes assigned so far.  It is called by the lifespan at startup    *)
(* and by predict_approval_probability while models_loaded is false.  The  *)
(* loads are taken one at a time so that the state during loading can be   *)
(* examined; the event loop runs no other coroutine between them, which    *)
(* only removes behaviours.                                                *)
(***************************************************************************)
MaxLoads == 2
MaxChecks == 3

\* The attributes load_models assigns, in order (ml_models.py:29-56)
ModelAttributes ==
    <<"tokenizer", "bert_model", "approval_model", "quality_model",
      "timeline_model", "budget_model">>

NumModels == Len(ModelAttributes)

AllModels == {ModelAttributes[k] : k \in 1..NumModels}

\* models_loaded set as soon as one load has succeeded.
ModelsLoadedEarly(step) == step >= 1

\* self.models_loaded = True follows the last load (ml_models.py:58)
ModelsLoadedAfter(step) == step = NumModels

\* The lifespan, or predict_approval_probability on an unloaded predictor,
\* calls load_models.
StartLoad ==
    /\ load_step = 0
    /\ ~models_loaded
    /\ load_attempts < MaxLoads
    /\ load_step' = 1
    /\ load_attempts' = load_attempts + 1
    /\ load_failed' = FALSE
    /\ UNCHANGED <<loaded_models, models_loaded, ready_responses, outsideReady>>

\* The next load of load_models succeeds.
LoadModel ==
    /\ load_step \in 1..NumModels
    /\ loaded_models' = loaded_models \cup {ModelAttributes[load_step]}
    /\ models_loaded' = (models_loaded \/ ModelsLoadedAfter(load_step))
    /\ load_step' = IF load_step = NumModels THEN 0 ELSE load_step + 1
    /\ UNCHANGED <<load_attempts, load_failed, ready_responses, outsideReady>>

\* The next load of load_models raises: logged and raised again
\* (ml_models.py:61-63).
LoadRaises ==
    /\ load_step \in 1..NumModels
    /\ load_step' = 0
    /\ load_failed' = TRUE
    /\ UNCHANGED <<loaded_models, models_loaded, load_attempts,
                   ready_responses, outsideReady>>

\* Where loading stands
LoadPhase ==
    CASE load_step # 0 -> "loading"
      [] models_loaded -> "loaded"
      [] load_failed -> "failed"
      [] OTHER -> "not started"

\* readiness_check (main.py:108-117); the answer is recorded with the state
\* of the predictor it was given in
ReadinessCheck ==
    /\ Len(ready_responses) < MaxChecks
    /\ ready_responses' =
          Append(ready_responses,
                 [status_code |-> IF ~models_loaded THEN 503 ELSE 200,
                  phase |-> LoadPhase,
                  loaded |-> loaded_models])
    /\ UNCHANGED <<loaded_models, models_loaded, load_step, load_attempts,
                   load_failed, outsideReady>>

InitReady ==
    /\ loaded_models = {}
    /\ models_loaded = FALSE
    /\ load_step = 0
    /\ load_attempts = 0
    /\ load_failed = FALSE
    /\ ready_responses = <<>>

(***************************************************************************)
(* Failing requests.  The body of every request operation is one try       *)
(* block whose handler is                                                  *)
(*     except Exception as e:                                              *)
(*         raise HTTPException(status_code=500, detail=str(e))             *)
(* An HTTPException raised by a route is answered by the framework's       *)
(* handler for HTTPException with the exception's status code and detail.  *)
(* The handler registered for 500 (main.py:396-402) is installed as the    *)
(* handler of exceptions that escape the route, and no exception escapes   *)
(* these try blocks.                                                       *)
(***************************************************************************)
MaxFailures == 2

Operations ==
    {"generate_project", "suggest_improvements", "validate_conformity",
     "detect_bias", "submit_feedback"}

\* Internal exceptions: the class and the argument it was raised with
InternalExceptions ==
    [class : {"AttributeError"},
     arg : {"'str' object has no attribute 'get'",
            "'list' object has no attribute 'get'"}]
    \cup [class : {"KeyError"}, arg : {"budget", "region"}]

\* str(e): the argument, for a KeyError its repr
StrOf(e) ==
    IF e.class = "KeyError" THEN "'" \o e.arg \o "'" ELSE e.arg

\* except Exception as e: raise HTTPException(status_code=500, detail=str(e))
RaisedFor(e) == [status_code |-> 500, detail |-> StrOf(e)]

\* The framework's handler for HTTPException
HttpExceptionHandler(exc) ==
    [status_code |-> exc.status_code, body |-> [detail |-> exc.detail]]

\* A request of the operation raises e inside its try block.
FailRequest(operation, e) ==
    /\ Len(error_log) < MaxFailures
    /\ error_log' =
          Append(error_log,
                 [operation |-> operation, exception |-> e,
                  response |-> HttpExceptionHandler(RaisedFor(e))])
    /\ UNCHANGED outsideErr

InitErr == error_log = <<>>

(***************************************************************************)
(* process_guidelines.  A text is the sequence of its sentences; of a      *)
(* sentence the model keeps how it is classified and whether               *)
(* sentence_model.encode raises on it.  A sentence is named by its         *)
(* position: the number of its text and its number in the text.            *)
(***************************************************************************)
MaxTexts == 2
MaxSentences == 2

SentenceKinds == {"requirement", "objective", "restriction", "other"}

\* What the lowered sentence contains: "requirement" when it holds one of
\* requirement_keywords, "objective" one of objective_keywords,
\* "restriction" one of restriction_keywords
SentenceMarkers == {"requirement", "objective", "restriction"}

GuidelineSentences == [markers : SUBSET SentenceMarkers, encode_raises : BOOLEAN]

IsRequirement(sentence) == "requirement" \in sentence.markers

IsObjective(sentence) == "objective" \in sentence.markers

IsRestriction(sentence) == "restriction" \in sentence.markers

\* The classification with the rules tried in the opposite order.
KindRestrictionFirst(sentence) ==
    IF IsRestriction(sentence) THEN "restriction"
    ELSE IF IsObjective(sentence) THEN "objective"
    ELSE IF IsRequirement(sentence) THEN "requirement"
    ELSE "other"

\* The if / elif / elif chain of process_guidelines (nlp_engine.py:94-113)
Kind(sentence) ==
    IF IsRequirement(sentence) THEN "requirement"
    ELSE IF IsObjective(sentence) THEN "objective"
    ELSE IF IsRestriction(sentence) THEN "restriction"
    ELSE "other"

GuidelineTextSet ==
    UNION {[1..n -> GuidelineSentences] : n \in 0..MaxSentences}

GuidelineInputs ==
    UNION {[1..n -> GuidelineTextSet] : n \in 0..MaxTexts}

\* One text of several sentences, or several texts of one sentence each
ClassifyInputs ==
    {<<text>> : text \in GuidelineTextSet}
        \cup UNION {{[i \in 1..n |-> <<sentences[i]>>] :
                        sentences \in [1..n -> GuidelineSentences]} :
                    n \in 0..MaxTexts}

\* The sentences of the texts in the order the two loops visit them
RECURSIVE SentencesFrom(_, _, _)
SentencesFrom(texts, t, k) ==
    IF t > Len(texts) THEN <<>>
    ELSE IF k > Len(texts[t]) THEN SentencesFrom(texts, t + 1, 1)
    ELSE <<[at |-> <<t, k>>, kind |-> Kind(texts[t][k]),
            encode_raises |-> texts[t][k].encode_raises]>>
         \o SentencesFrom(texts, t, k + 1)

\* The entry appended for a sentence (nlp_engine.py:94-113): requirements
\* and objectives carry the embedding, restrictions do not
EntryFor(sentence) ==
    [text |-> sentence.at,
     embedding |-> IF sentence.kind \in {"requirement", "objective"}
                   THEN "vector" ELSE "absent"]

RECURSIVE EntriesOf(_, _)
EntriesOf(sentences, kind) ==
    IF sentences = <<>> THEN <<>>
    ELSE (IF Head(sentences).kind = kind
          THEN <<EntryFor(Head(sentences))>> ELSE <<>>)
         \o EntriesOf(Tail(sentences), kind)

\* self.sentence_model.encode(sent_text) at line 91 is outside any try:
\* the first sentence on which it raises ends the call
ProcessGuidelinesRaises(texts) ==
    \E i \in 1..Len(SentencesFrom(texts, 1, 1)) :
        SentencesFrom(texts, 1, 1)[i].encode_raises

NoProcessed ==
    [requirements |-> <<>>, objectives |-> <<>>, restrictions |-> <<>>]

\* NLPEngine.process_guidelines: the categories of the returned dict
ProcessGuidelines(texts) ==
    [requirements |-> EntriesOf(SentencesFrom(texts, 1, 1), "requirement"),
     objectives |-> EntriesOf(SentencesFrom(texts, 1, 1), "objective"),
     restrictions |-> EntriesOf(SentencesFrom(texts, 1, 1), "restriction")]

\* One call of process_guidelines on the texts.
ProcessGuidelinesCall ==
    /\ guideline_status = "none"
    /\ IF ProcessGuidelinesRaises(guideline_texts)
       THEN /\ guideline_status' = "raised"
            /\ processed' = NoProcessed
       ELSE /\ guideline_status' = "returned"
            /\ processed' = ProcessGuidelines(guideline_texts)
    /\ UNCHANGED <<guideline_texts, outsideGuide>>

InitGuide(inputs) ==
    /\ guideline_texts \in inputs
    /\ guideline_status = "none"
    /\ processed = NoProcessed

(***************************************************************************)
(* generate_project.  The body is a sequence of awaits inside one try      *)
(* block: extract_text for each document, process_guidelines,              *)
(* generate_project_structure, bias_detector.analyze, generate_documents.  *)
(* project_structure is a local variable of the request.  Requests run     *)
(* concurrently; a switch to another request is allowed between any two    *)
(* stages and between two documents.  An exception in a stage ends the     *)
(* request with the 500 answer.                                            *)
(***************************************************************************)
MaxPipelines == 2
MaxDocuments == 2

PipelineRequests == 1..MaxPipelines

\* The stages in the order of the statements of the try block
StageOrder == <<"extract", "guidelines", "synthesis", "bias", "render">>

\* The stage order with bias analysis ahead of synthesis.
NextStageBiasFirst(stage) ==
    CASE stage = "extract" -> "guidelines"
      [] stage = "guidelines" -> "bias"
      [] stage = "bias" -> "synthesis"
      [] stage = "synthesis" -> "render"
      [] OTHER -> "done"

\* The statement that follows a stage (main.py:137-162)
NextStage(stage) ==
    CASE stage = "extract" -> "guidelines"
      [] stage = "guidelines" -> "synthesis"
      [] stage = "synthesis" -> "bias"
      [] stage = "bias" -> "render"
      [] OTHER -> "done"

NoProject == [request |-> 0]

IdleRequest ==
    [pc |-> "idle", documents |-> 0, extracted |-> 0, completed |-> <<>>,
     project_structure |-> NoProject, analyzed |-> NoProject,
     rendered |-> NoProject, counters |-> <<>>, scheduled |-> FALSE,
     failed_at |-> ""]

\* A request arrives with its documents; the handler counts it as started
\* (main.py:134) before its first await.
ArriveGenerate(r, documents) ==
    /\ pipeline[r].pc = "idle"
    /\ pipeline' = [pipeline EXCEPT ![r].pc = "extract",
                                    ![r].documents = documents,
                                    ![r].counters = Append(@, "started")]
    /\ UNCHANGED outsidePipe

\* text = await ocr_processor.extract_text(doc_url) for the next document
ExtractText(r) ==
    /\ pipeline[r].pc = "extract"
    /\ pipeline[r].extracted < pipeline[r].documents
    /\ pipeline' = [pipeline EXCEPT ![r].extracted = @ + 1]
    /\ UNCHANGED outsidePipe

\* The stage the request is at completes: the loop over the documents ends,
\* or the awaited call returns and its result is bound.
CompleteStage(r) ==
    /\ pipeline[r].pc \in {StageOrder[k] : k \in 1..Len(StageOrder)}
    /\ pipeline[r].pc = "extract"
          => pipeline[r].extracted = pipeline[r].documents
    /\ pipeline' =
          [pipeline EXCEPT
             ![r].pc = NextStage(pipeline[r].pc),
             ![r].completed = Append(@, pipeline[r].pc),
             ![r].project_structure =
                 IF pipeline[r].pc = "synthesis" THEN [request |-> r] ELSE @,
             ![r].analyzed =
                 IF pipeline[r].pc = "bias"
                 THEN pipeline[r].project_structure ELSE @,
             ![r].rendered =
                 IF pipeline[r].pc = "render"
                 THEN pipeline[r].project_structure ELSE @,
             ![r].scheduled = (pipeline[r].pc = "render"),
             ![r].counters =
                 IF pipeline[r].pc = "render" THEN Append(@, "success") ELSE @]
    /\ UNCHANGED outsidePipe

\* A failing stage that contributes nothing and lets the request go on.
FailStageAndGoOn(r) ==
    /\ pipeline[r].pc \in {StageOrder[k] : k \in 1..Len(StageOrder)}
    /\ pipeline[r].pc = "extract"
          => pipeline[r].extracted < pipeline[r].documents
    /\ pipeline' = [pipeline EXCEPT ![r].pc = NextStage(pipeline[r].pc),
                                    ![r].failed_at = pipeline[r].pc]
    /\ UNCHANGED outsidePipe

\* The call the request awaits raises: extract_text on the next document
\* (it logs and raises again, ocr_processor.py:31-33) or the call of a later
\* stage.  The except clause counts the error and raises the 500 answer
\* (main.py:186-189).
FailStage(r) ==
    /\ pipeline[r].pc \in {StageOrder[k] : k \in 1..Len(StageOrder)}
    /\ pipeline[r].pc = "extract"
          => pipeline[r].extracted < pipeline[r].documents
    /\ pipeline' = [pipeline EXCEPT ![r].pc = "failed",
                                    ![r].failed_at = pipeline[r].pc,
                                    ![r].counters = Append(@, "error")]
    /\ UNCHANGED outsidePipe

InitPipe == pipeline = [r \in PipelineRequests |-> IdleRequest]

(***************************************************************************)
(* The projects service.  Every operation but /health depends on           *)
(* get_current_user, which depends on the OAuth2 bearer scheme: the        *)
(* scheme answers 401 when the request carries no bearer token, and        *)
(* get_current_user answers 401 when the token does not decode with        *)
(* SECRET_KEY or its payload has no "sub".  A dependency that raises ends  *)
(* the request before the operation runs.  The crud module is not part of  *)
(* the sources at hand: it is taken as a plain store of rows with an       *)
(* auto-incremented id.  Requests are served one after the other (the      *)
(* operations are synchronous and each has its own session).               *)
(***************************************************************************)
MaxProjectRequests == 3

Titles == {"Projeto Teste", "Outro Projeto"}

\* A bearer token as the service sees it: whether its signature verifies
\* with SECRET_KEY, and the "sub" of its payload ("" when it has none)
BearerTokens ==
    {[present |-> TRUE, decodes |-> FALSE, sub |-> "alice"],
     [present |-> TRUE, decodes |-> TRUE, sub |-> ""],
     [present |-> TRUE, decodes |-> TRUE, sub |-> "alice"]}

NoToken == [present |-> FALSE, decodes |-> FALSE, sub |-> ""]

Credentials == BearerTokens \cup {NoToken}

\* The requests of the service; id and title are used by the operations
\* that take them
ProjectRequests ==
    [operation : {"create"}, token : Credentials, id : {0}, title : Titles]
    \cup [operation : {"update"}, token : Credentials, id : 1..2,
          title : {"Projeto Revisto"}]
    \cup [operation : {"read"}, token : Credentials, id : 1..2,
          title : {""}]
    \cup [operation : {"list", "health"}, token : Credentials, id : {0},
          title : {""}]

Unauthorized ==
    [status_code |-> 401, body |-> [id |-> 0, title |-> "", status |-> ""]]

NotFound ==
    [status_code |-> 404, body |-> [id |-> 0, title |-> "", status |-> ""]]

\* get_current_user accepting a payload without "sub".
GetCurrentUserAnyPayload(token) ==
    IF ~token.present THEN "401"
    ELSE IF ~token.decodes THEN "401"
    ELSE "user"

\* oauth2_scheme and get_current_user (main.py:21, 32-45)
GetCurrentUser(token) ==
    IF ~token.present THEN "401"
    ELSE IF ~token.decodes THEN "401"
    ELSE IF token.sub = "" THEN "401"
    ELSE "user"

\* crud.create_project: a new row with the next id and the default status
CrudCreateProject(db, title) ==
    LET id == Cardinality(DOMAIN db) + 1
    IN  [id |-> id, title |-> title, status |-> "Em Analise"]

\* crud.update_project: the row with the title replaced, if there is one
CrudUpdateProject(db, id, title) ==
    [db[id] EXCEPT !.title = title]

\* status_code=status.HTTP_201_CREATED (main.py:47)
CreatedStatus == 201

\* The response of an operation run for an authenticated request, and the
\* table after it (main.py:47-90)
Operate(db, request) ==
    CASE request.operation = "create" ->
            LET row == CrudCreateProject(db, request.title)
            IN  [response |-> [status_code |-> CreatedStatus, body |-> row],
                 db |-> [i \in DOMAIN db \cup {row.id} |->
                            IF i = row.id THEN row ELSE db[i]]]
      [] request.operation = "read" ->
            IF request.id \in DOMAIN db
            THEN [response |-> [status_code |-> 200, body |-> db[request.id]],
                  db |-> db]
            ELSE [response |-> NotFound, db |-> db]
      [] request.operation = "update" ->
            IF request.id \in DOMAIN db
            THEN LET row == CrudUpdateProject(db, request.id, request.title)
                 IN  [response |-> [status_code |-> 200, body |-> row],
                      db |-> [db EXCEPT ![request.id] = row]]
            ELSE [response |-> NotFound, db |-> db]
      [] OTHER ->
            [response |-> [status_code |-> 200,
                           body |-> [id |-> 0, title |-> "", status |-> ""]],
             db |-> db]

\* One request served by the projects service.
ServeProjects(request) ==
    /\ Len(px_log) < MaxProjectRequests
    /\ LET served ==
              IF request.operation # "health"
                 /\ GetCurrentUser(request.token) = "401"
              THEN [response |-> Unauthorized, db |-> projects]
              ELSE Operate(projects, request)
       IN  /\ projects' = served.db
           /\ px_log' = Append(px_log, [request |-> request,
                                        response |-> served.response])
    /\ UNCHANGED outsideProj

InitProj ==
    /\ projects = [i \in {} |-> [id |-> 0, title |-> "", status |-> ""]]
    /\ px_log = <<>>

(***************************************************************************)
(* generate_project, from synthesis to bias analysis: the structure        *)
(* generate_project_structure returns is handed as it is to                *)
(* bias_detector.analyze.  The guideline objectives are given by their     *)
(* number, the seed by its budget.  Seed budgets are whole numbers.        *)
(***************************************************************************)
MaxObjectives == 6

\* initial_data["budget"] of a generate_project request
GenerateSeeds ==
    {[kind |-> "absent", value |-> 0], [kind |-> "text", value |-> 0]}
    \cup [kind : {"number"},
          value : {-1, 0, 99999, 100000, 500000, 999999, 1000000, 1000001,
                   2000000}]

DefaultSpecificObjectives ==
    <<"Desenvolver metodologia inovadora para atendimento",
      "Capacitar profissionais na area de atuacao",
      "Estabelecer indicadores de impacto e qualidade",
      "Garantir sustentabilidade das acoes propostas">>

\* ProjectPredictor._generate_objectives: objectives_data[1:4], or the four
\* defaults when that slice is empty
GenerateObjectives(objectives_data) ==
    LET sliced == SubSeq(objectives_data, 2,
                         IF Len(objectives_data) < 4 THEN Len(objectives_data)
                         ELSE 4)
    IN  [general |-> IF objectives_data # <<>> THEN Head(objectives_data)
                     ELSE "Promover a inclusao",
         specific |-> IF sliced = <<>> THEN DefaultSpecificObjectives
                      ELSE sliced]

\* ProjectPredictor._generate_team: the roles of the fixed team
GenerateTeam ==
    <<"Coordenador Geral", "Pesquisador Senior", "Pesquisador Junior",
      "Assistente de Pesquisa", "Especialista em Acessibilidade">>

\* The structure as the detectors read it: project_data.get(key, default)
\* on a dict that has no 'institution_type' and no 'region' key
StructureAsProjectData(structure) ==
    [institution_type |-> "", region |-> "",
     objectives |-> [shape |-> "dict",
                     specific |-> Len(structure.objectives.specific)],
     budget |-> [shape |-> "dict", kind |-> "number",
                 total |-> structure.budget.total],
     timeline |-> Len(structure.timeline),
     team |-> Len(structure.team)]

NoGenerated ==
    [status |-> "none", seed |-> [kind |-> "absent", value |-> 0],
     project_data |-> NoInput, results |-> <<>>, report |-> NoAnalysis]

\* generate_project from generate_project_structure to analyze
\* (main.py:147-157) for one request
SynthesizeAndAnalyze(project_type, seed, objectives_data, metrics) ==
    /\ generated.status = "none"
    /\ IF GenerateBudgetRaises([budget |-> seed])
       THEN generated' = [NoGenerated EXCEPT !.status = "raised", !.seed = seed]
       ELSE LET structure ==
                    [type |-> project_type,
                     objectives |-> GenerateObjectives(objectives_data),
                     budget |-> GenerateBudget(project_type, [budget |-> seed]),
                     timeline |-> GenerateTimeline(project_type),
                     team |-> GenerateTeam]
                project_data == StructureAsProjectData(structure)
            IN  IF AnalyzeRaises(project_data)
                THEN generated' = [NoGenerated EXCEPT !.status = "raised",
                                                      !.seed = seed,
                                                      !.project_data = project_data]
                ELSE generated' =
                        [status |-> "analysed", seed |-> seed,
                         project_data |-> project_data,
                         results |-> Analyze(project_data, metrics).results,
                         report |-> Analyze(project_data, metrics).report]
    /\ UNCHANGED outsideGen

GenerateAndAnalyze ==
    \E project_type \in ProjectTypes, seed \in GenerateSeeds,
       n \in 0..MaxObjectives, metrics \in FairnessSamples :
        SynthesizeAndAnalyze(project_type, seed, [i \in 1..n |-> i], metrics)

InitGen == generated = NoGenerated

(***************************************************************************)
(* improve_text, the choice of the approved example.  An example is given  *)
(* by its project id, whether it carries the requested field, and the      *)
(* cosine similarity of that field to the text, in thousandths.  Any       *)
(* exception inside the try block (an embedding or the merge raising) is   *)
(* answered with the text itself and confidence 0.0.                       *)
(***************************************************************************)
MaxExamples == 2

Similarities == {400, 500, 501, 700, 949, 950}

ExampleSet == [has_field : BOOLEAN, similarity : Similarities]

ExampleLists == UNION {[1..n -> ExampleSet] : n \in 0..MaxExamples}

\* The similarity test with both bounds included.
QualifiesInclusive(example) ==
    example.has_field /\ 500 <= example.similarity /\ example.similarity <= 950

\* field_type in example, and 0.5 < similarity < 0.95
Qualifies(example) ==
    example.has_field /\ 500 < example.similarity /\ example.similarity < 950

\* improvements, in the order of the examples: the position of each example
\* kept stands for its text and project id
RECURSIVE ImprovementsFrom(_, _)
ImprovementsFrom(examples, k) ==
    IF k > Len(examples) THEN <<>>
    ELSE (IF Qualifies(examples[k])
          THEN <<[project_id |-> k, similarity |-> examples[k].similarity]>>
          ELSE <<>>)
         \o ImprovementsFrom(examples, k + 1)

\* improvements.sort(key=similarity, reverse=True)[0]: the sort is stable,
\* the first of the entries of highest similarity comes first
BestImprovement(improvements) ==
    improvements[CHOOSE i \in 1..Len(improvements) :
        /\ \A j \in 1..Len(improvements) :
              improvements[j].similarity <= improvements[i].similarity
        /\ \A j \in 1..(i - 1) :
              improvements[j].similarity < improvements[i].similarity]

\* The path improve_text takes, with its confidence in thousandths
ChooseImprovement(examples, raises) ==
    IF raises
    THEN [path |-> "error", confidence |-> 0, project_id |-> 0]
    ELSE IF ImprovementsFrom(examples, 1) # <<>>
    THEN LET best == BestImprovement(ImprovementsFrom(examples, 1))
         IN  [path |-> "merge", confidence |-> best.similarity,
              project_id |-> best.project_id]
    ELSE [path |-> "enhance", confidence |-> 600, project_id |-> 0]

NoChoice == [path |-> "none", confidence |-> 0, project_id |-> 0]

\* One call of improve_text.
ImproveTextCall ==
    /\ choice = NoChoice
    /\ choice' = ChooseImprovement(examples_input.examples, examples_input.raises)
    /\ UNCHANGED <<examples_input, outsideChoice>>

InitChoice(inputs) ==
    /\ examples_input \in inputs
    /\ choice = NoChoice

InitMore ==
    InitProj /\ InitChoice({[examples |-> <<>>, raises |-> FALSE]}) /\ InitGen

InitExt ==
    /\ InitValidation({<<>>}) /\ InitText({NoImproveInput}) /\ InitCache
    /\ InitReady /\ InitErr /\ InitGuide({<<>>}) /\ InitPipe
    /\ InitMore

\* The feedback endpoint and the bias detector's learning loop.
Init == InitFeedback /\ InitSynth /\ InitBias({NoInput}) /\ InitExt

Next == SubmitFeedback

Spec == Init /\ [][Next]_vars

\* The synthesizer, called repeatedly while the clock runs.
NextSynth == Synthesize \/ Tick

SpecSynth == Init /\ [][NextSynth]_vars

\* The bias analysis of any one project_data, called repeatedly.
InitAnalysis == InitFeedback /\ InitSynth /\ InitBias(ProjectInputs) /\ InitExt

NextBias == AnalyzeRequest

SpecBias == InitAnalysis /\ [][NextBias]_vars

\* One project_data analysed again and again while approval decisions are
\* learned and the detector is retrained.
ProbeInputs ==
    {project_data \in ProjectInputs :
        /\ project_data.institution_type \in {"", "university"}
        /\ project_data.region \in {"", "sudeste", "<null>"}
        /\ project_data.objectives = [shape |-> "dict", specific |-> 6]
        /\ project_data.budget.kind = "number"
        /\ project_data.budget.total \in {500000, 1000001}
        /\ project_data.timeline = 9
        /\ project_data.team = 11}

ApprovalInputs ==
    {fb \in FeedbackInputs :
        fb.feedback_type = "approval_decision" /\ fb.features = "dict"}

InitLife == InitFeedback /\ InitSynth /\ InitBias(ProbeInputs) /\ InitExt

LearnApproval == \E fb \in ApprovalInputs : ProcessFeedback(fb)

NextLife == AnalyzeRequest \/ LearnApproval

SpecBiasLife == InitLife /\ [][NextLife]_vars

\* validate_section called again and again.
NextValidate == Validate

SpecValidate == Init /\ [][NextValidate]_vars

\* validate_conformity on any one project_data.
InitConformity ==
    /\ InitFeedback /\ InitSynth /\ InitBias({NoInput})
    /\ InitValidation(ConformityInputs) /\ InitText({NoImproveInput})
    /\ InitCache /\ InitReady /\ InitErr /\ InitGuide({<<>>}) /\ InitPipe
    /\ InitMore

NextConformity == ValidateConformity

SpecConformity == InitConformity /\ [][NextConformity]_vars

\* improve_text on any one input, its result validated.
InitImprove ==
    /\ InitFeedback /\ InitSynth /\ InitBias({NoInput})
    /\ InitValidation({<<>>}) /\ InitText(ImproveInputs) /\ InitCache
    /\ InitReady /\ InitErr /\ InitGuide({<<>>}) /\ InitPipe /\ InitMore

NextImprove == ImproveAndValidate

SpecImprove == InitImprove /\ [][NextImprove]_vars

\* Concurrent callers of load_current_guidelines, with cleanup.
NextCache ==
    \/ \E caller \in Loaders : CallLoad(caller)
    \/ \E caller \in Loaders : LoadCurrentGuidelines(caller)
    \/ Cleanup

SpecCache == Init /\ [][NextCache]_vars

\* Loading of the models with readiness checks at any moment.
NextReady ==
    \/ StartLoad
    \/ LoadModel
    \/ LoadRaises
    \/ ReadinessCheck

SpecReady == Init /\ [][NextReady]_vars

\* Requests of the five operations failing with internal exceptions.
NextErr ==
    \E operation \in Operations, e \in InternalExceptions :
        FailRequest(operation, e)

SpecErr == Init /\ [][NextErr]_vars

\* process_guidelines on any one list of texts.
InitGuidelines ==
    /\ InitFeedback /\ InitSynth /\ InitBias({NoInput})
    /\ InitValidation({<<>>}) /\ InitText({NoImproveInput}) /\ InitCache
    /\ InitReady /\ InitErr /\ InitGuide(GuidelineInputs) /\ InitPipe
    /\ InitMore

NextGuidelines == ProcessGuidelinesCall

SpecGuidelines == InitGuidelines /\ [][NextGuidelines]_vars

\* process_guidelines on sentences with every combination of markers.
InitClassify ==
    /\ InitFeedback /\ InitSynth /\ InitBias({NoInput})
    /\ InitValidation({<<>>}) /\ InitText({NoImproveInput}) /\ InitCache
    /\ InitReady /\ InitErr /\ InitGuide(ClassifyInputs) /\ InitPipe
    /\ InitMore

NextClassify == ProcessGuidelinesCall

SpecClassify == InitClassify /\ [][NextClassify]_vars

\* Concurrent generate_project requests.
NextPipeline ==
    \/ \E r \in PipelineRequests, documents \in 0..MaxDocuments :
          ArriveGenerate(r, documents)
    \/ \E r \in PipelineRequests : ExtractText(r)
    \/ \E r \in PipelineRequests : CompleteStage(r)
    \/ \E r \in PipelineRequests : FailStage(r)

SpecPipeline == Init /\ [][NextPipeline]_vars

\* Requests to the projects service, with any credentials.
NextProjects == \E request \in ProjectRequests : ServeProjects(request)

SpecProjects == Init /\ [][NextProjects]_vars

\* improve_text on any list of approved examples.
InitExamples ==
    /\ InitFeedback /\ InitSynth /\ InitBias({NoInput})
    /\ InitValidation({<<>>}) /\ InitText({NoImproveInput}) /\ InitCache
    /\ InitReady /\ InitErr /\ InitGuide({<<>>}) /\ InitPipe /\ InitProj
    /\ InitChoice([examples : ExampleLists, raises : BOOLEAN])
    /\ InitGen

NextExamples == ImproveTextCall

SpecExamples == InitExamples /\ [][NextExamples]_vars

\* generate_project from the seed to the bias report.
NextGenerate == GenerateAndAnalyze

SpecGenerate == Init /\ [][NextGenerate]_vars

(***************************************************************************)
(* Claims about the feedback endpoint (specification Spec).                *)
(***************************************************************************)

\* C1: the response to the n-th successful feedback submission has
\* retraining_scheduled = TRUE exactly when n >= 100, and the retraining task
\* has been scheduled on exactly those submissions.
C1_RetrainingScheduledFromHundredth ==
    /\ fb_response.status_code = 200 =>
          (fb_response.retraining_scheduled <=> fb_success >= RetrainThreshold)
    /\ background_tasks = IF fb_success >= RetrainThreshold
                          THEN fb_success - RetrainThreshold + 1 ELSE 0

\* C2: no retraining runs to completion between the start of a feedback
\* request and the point where its response is produced.
C2_ResponseNeverWaitsForRetraining == fb_retrains = 0

\* C3: a retraining run that raises is not propagated to the feedback request
\* that triggered it: every request is answered feedback_received.
C3_RetrainFailureNotPropagated ==
    fb_requests > 0 => fb_response.status = "feedback_received"

\* C4: the bias detector's feedback history is append-only: every step keeps
\* all recorded entries, unchanged and in place, whether or not a retraining
\* ran or failed in it.
C4_LedgerAppendOnly ==
    [][/\ Len(historical_data') >= Len(historical_data)
       /\ SubSeq(historical_data', 1, Len(historical_data)) = historical_data]_vars

\* C4 witness: a retraining has failed on a history past the threshold, and
\* the request before it also ran a retraining.
C4_FailedRetrainReached ==
    /\ fb_response = ErrorResponse
    /\ Len(historical_data) > BiasRetrainThreshold
    /\ RetrainBiasDetectorRaises(historical_data)

(***************************************************************************)
(* Claims about the synthesizer (specification SpecSynth).                 *)
(***************************************************************************)

\* C8: two distinct calls of generate_project_structure never return the same
\* project id, also when both read the same clock value.
C8_ProjectIdsUnique ==
    \A i, j \in 1..Len(issued_ids) :
        i # j => issued_ids[i] # issued_ids[j]

DistributionSum(budget) ==
    BigAdd(budget.distribution.human_resources.mag,
    BigAdd(budget.distribution.equipment.mag,
    BigAdd(budget.distribution.materials.mag,
    BigAdd(budget.distribution.services.mag,
           budget.distribution.indirect_costs.mag))))

\* Every amount of the budget has the sign of the total (or is zero).
SignsAgree(budget) ==
    /\ \A c \in BudgetCategories :
          /\ budget.distribution[c].mag = <<>>
                \/ budget.distribution[c].neg = (budget.total < 0)
          /\ \A k \in 1..Len(budget.items[c]) :
                budget.items[c][k].value.mag = <<>>
                   \/ budget.items[c][k].value.neg = (budget.total < 0)

\* |x - target| <= 1e-6 * |target|, on magnitudes, in exact arithmetic
WithinTolerance(x, target) ==
    BigCmp(BigMulSmall(BigDist(x, target), 1000000), target) <= 0

\* C9 as stated: the five distribution amounts sum to the total and each
\* category's line items sum to that category's distribution amount, exactly.
C9_BudgetSumsExact ==
    synth_status = "returned" =>
        LET budget == project_structure.budget
        IN  /\ SignsAgree(budget)
            /\ DistributionSum(budget) = AmountOfInt(budget.total).mag
            /\ \A c \in BudgetCategories :
                  SumValues(budget.items[c]) = budget.distribution[c].mag

\* C9 amended: for every integer budget total the distribution amounts sum to
\* the total, and each category's line items to that category's distribution
\* amount, within a relative tolerance of 1e-6.
C9_BudgetSumsWithinTolerance ==
    synth_status = "returned" =>
        LET budget == project_structure.budget
        IN  /\ SignsAgree(budget)
            /\ WithinTolerance(DistributionSum(budget), AmountOfInt(budget.total).mag)
            /\ \A c \in BudgetCategories :
                  WithinTolerance(SumValues(budget.items[c]),
                                  budget.distribution[c].mag)

\* C9 witness: a budget whose products were rounded, so that the materials
\* items do not add up to the materials share exactly.
C9_RoundedBudgetReached ==
    /\ synth_status = "returned"
    /\ project_structure.budget.total > 1
    /\ SumValues(project_structure.budget.items.materials)
          # project_structure.budget.distribution.materials.mag

\* C10: for every project type the timeline has exactly 6 phases, each with
\* start_month <= end_month, and each phase starts strictly after the
\* previous one ends.
C10_TimelinePhasesIncrease ==
    synth_status = "returned" =>
        LET timeline == project_structure.timeline
        IN  /\ Len(timeline) = 6
            /\ \A k \in 1..Len(timeline) :
                  timeline[k].start_month <= timeline[k].end_month
            /\ \A k \in 1..(Len(timeline) - 1) :
                  timeline[k + 1].start_month > timeline[k].end_month

\* C10 witness: a structure synthesized for a project type outside the table.
C10_UnknownTypeSynthesized ==
    /\ synth_status = "returned"
    /\ project_structure.type \notin {"research", "development", "training"}
    /\ Len(project_structure.timeline) = 6

\* The duration the claim names for a project type, in months.
StatedDuration(type) ==
    CASE type = "research" -> 24
      [] type = "development" -> 18
      [] type = "training" -> 12
      [] OTHER -> 18

\* C11: the timeline covers exactly the duration stated for the project type:
\* the first phase starts at month 1, every phase spans duration // 6 months,
\* each phase starts the month after the previous one ends, and the last phase
\* ends at the stated duration.
C11_TimelineCoversDuration ==
    synth_status = "returned" =>
        LET timeline == project_structure.timeline
            duration == StatedDuration(project_structure.type)
        IN  /\ Len(timeline) = 6
            /\ timeline[1].start_month = 1
            /\ \A k \in 1..Len(timeline) :
                  timeline[k].end_month - timeline[k].start_month + 1
                     = duration \div 6
            /\ \A k \in 1..(Len(timeline) - 1) :
                  timeline[k + 1].start_month = timeline[k].end_month + 1
            /\ timeline[Len(timeline)].end_month = duration

\* C11 witness: a training project synthesized with a budget of 200000: six
\* phases of two months ending at month 12, human_resources 80000.
C11_TrainingScenarioReached ==
    /\ synth_status = "returned"
    /\ project_structure.type = "training"
    /\ project_structure.budget.total = 200000
    /\ project_structure.budget.distribution.human_resources
          = AmountOfInt(80000)
    /\ \A k \in 1..6 :
          /\ project_structure.timeline[k].start_month = 2 * k - 1
          /\ project_structure.timeline[k].end_month = 2 * k

(***************************************************************************)
(* Claims about the bias analysis (specifications SpecBias, SpecBiasLife). *)
(***************************************************************************)

\* C5: in analyze the failure of one detector does not abort the analysis:
\* every call returns a report to which all four detectors contributed.
C5_DetectorFailureIsolated ==
    analysis_status # "none" =>
        /\ analysis_status = "returned"
        /\ Len(detector_results) = 4

Flagged == {k \in 1..Len(detector_results) : detector_results[k].detected}

FlaggedScores == [k \in 1..Len(detector_results) |-> detector_results[k].score]

\* C6: bias_detected is true iff at least one of the four detectors flagged
\* its pattern; with none flagged bias_score is 0 and recommendations is
\* empty; otherwise bias_score is the mean of the scores of the flagged
\* patterns only, and lies in [0,1] (0..12000 in units of 1/12000).
C6_BiasScoreIsMeanOfFlagged ==
    analysis_status = "returned" =>
        /\ Len(detector_results) = 4
        /\ analysis.bias_detected <=> Flagged # {}
        /\ Flagged = {} =>
              analysis.bias_score = 0 /\ analysis.recommendations = <<>>
        /\ Flagged # {} =>
              analysis.bias_score * Cardinality(Flagged)
                 = 12 * SumOver(FlaggedScores, Flagged)
        /\ analysis.bias_score >= 0 /\ analysis.bias_score <= 12000

\* C6 witness: a report in which some detectors flagged and others did not.
C6_MixedReportReached ==
    /\ analysis_status = "returned"
    /\ Cardinality(Flagged) = 2
    /\ analysis.bias_score > 0

\* C7: two calls of analyze on the same project_data give the same
\* bias_detected, patterns and recommendations, whatever feedback was learned
\* and however many retrainings ran between them.
C7_AnalyzeDeterministic ==
    \A a, b \in observed :
        /\ a.status = b.status
        /\ a.bias_detected = b.bias_detected
        /\ a.patterns = b.patterns
        /\ a.recommendations = b.recommendations

\* C7 witness: the same project_data was analysed before any retraining and
\* again after the detector had been retrained more than once, and patterns
\* were reported.
C7_AnalysedAcrossRetraining ==
    /\ \E a \in observed : a.fitted_on = 0 /\ a.patterns # <<>>
    /\ \E b \in observed : b.fitted_on > BiasRetrainThreshold

\* C20 as stated: the geographic detector flags a project iff its region,
\* lower-cased, is in the table and |share - 1/5| > 0.10, and the score of a
\* flagged project is that difference: 0.25 for sudeste, 0.15 for norte.
C20_GeographicScoreAsStated ==
    analysis_status = "returned" =>
        LET region == Lower(analysis_input.region)
            geographic == detector_results[2]
        IN  /\ geographic.detected <=> region \in {"sudeste", "norte"}
            /\ geographic.detected <=> GeographicScore(analysis_input) # <<>>
            /\ region = "sudeste" => geographic_score = DoubleOfRatio(25, 100)
            /\ region = "norte" => geographic_score = DoubleOfRatio(15, 100)
            /\ ~geographic.detected => geographic_score = <<>>

\* C20 amended: the same flags; the score is the binary64 difference
\* abs(share - 1/5), which is the double 0.25 for sudeste and, for norte, the
\* double one unit in the last place (2^-55) above the double 0.15.
C20_GeographicScoreIsFloatDifference ==
    analysis_status = "returned" =>
        LET region == Lower(analysis_input.region)
            geographic == detector_results[2]
        IN  /\ geographic.detected <=> region \in {"sudeste", "norte"}
            /\ geographic.detected <=> GeographicScore(analysis_input) # <<>>
            /\ geographic.detected =>
                  /\ geographic_score = GeographicDeviation(region)
                  /\ geographic.score = Abs(RegionalDistribution[region] - 200)
            /\ region = "sudeste" => geographic_score = DoubleOfRatio(25, 100)
            /\ region = "norte" =>
                  geographic_score = BigAddInt(DoubleOfRatio(15, 100), 32)
            /\ ~geographic.detected =>
                  geographic_score = <<>> /\ geographic.score = 0

\* C20 witness: norte was analysed and flagged, with a score that is not the
\* double 0.15.
C20_NorteFlagged ==
    /\ analysis_status = "returned"
    /\ analysis_input.region = "norte"
    /\ detector_results[2].detected
    /\ geographic_score # DoubleOfRatio(15, 100)

(***************************************************************************)
(* Claims about validation (specifications SpecValidate, SpecConformity).  *)
(***************************************************************************)

\* C12: of two validations of the same section type, the one that lists more
\* issues never has the higher score.
C12_ScoreMonotoneInIssues ==
    (/\ previous_result.section # ""
     /\ previous_result.section = validation_result.section
     /\ Len(validation_result.issues) > Len(previous_result.issues))
        => BigCmp(validation_result.score, previous_result.score) <= 0

\* C13: compliant is true iff the reported score is >= 0.8; the reported
\* score is the mean of the scores of the validated sections (their sum
\* divided by their number, within 1e-6), and it is 0 with compliant false
\* when no section was submitted.
C13_CompliantIffScoreAtLeastPoint8 ==
    conformity_status = "returned" =>
    LET n == Len(conformity_results)
    IN  /\ conformity_report.compliant
              <=> BigCmp(conformity_report.score, ScoreLiterals[8]) >= 0
        /\ n = Len(conformity_input)
        /\ n = 0 => conformity_report.score = <<>> /\ ~conformity_report.compliant
        /\ n > 0 =>
              WithinTolerance(BigMulSmall(conformity_report.score, n),
                              BigAdd(conformity_results[1].score,
                                     BigAdd(IF n >= 2 THEN conformity_results[2].score
                                            ELSE <<>>,
                                            IF n >= 3 THEN conformity_results[3].score
                                            ELSE <<>>)))

\* C13 witness: three sections that each score 0.8 were validated and the
\* report is compliant.
C13_ThresholdReportReached ==
    /\ conformity_status = "returned"
    /\ Len(conformity_results) = 3
    /\ \A k \in 1..3 : conformity_results[k].score = ScoreLiterals[8]
    /\ conformity_report.compliant

\* C14: when the original text has zero issues for the field type, the text
\* improve_text returns is scored by validate_section, against the same
\* guidelines, no lower than the original, on whichever path it was produced.
C14_ImprovedTextScoresNoLower ==
    (improvement.path # "none" /\ improvement.original.issues = <<>>)
        => BigCmp(improvement.improved.score, improvement.original.score) >= 0

\* C15: under any interleaving of concurrent load_current_guidelines calls
\* the cache is populated at most once between two clears, every caller
\* receives the complete guideline set (version, keywords, requirements and
\* restrictions all present and non-empty), and all callers between the same
\* two clears receive the same value.
C15_CachePopulatedOnceAndComplete ==
    /\ cache_populations <= 1
    /\ \A caller \in Loaders :
          loader_result[caller].received =>
             /\ DOMAIN loader_result[caller].guidelines =
                    {"version", "keywords", "requirements", "restrictions"}
             /\ loader_result[caller].guidelines.version # ""
             /\ Len(loader_result[caller].guidelines.keywords) = 10
             /\ Len(loader_result[caller].guidelines.requirements) = 4
             /\ Len(loader_result[caller].guidelines.restrictions) = 3
    /\ \A a, b \in Loaders :
          (/\ loader_result[a].received /\ loader_result[b].received
           /\ loader_result[a].after_clear = loader_result[b].after_clear)
             => loader_result[a].guidelines = loader_result[b].guidelines

\* C15 witness: after a clear, two callers have been served, one populating
\* the cache again and the other reading the entry.
C15_ConcurrentCallersServed ==
    /\ cache_clears >= 1
    /\ cache_populations = 1
    /\ \E a, b \in Loaders :
          /\ a # b
          /\ loader_result[a].received /\ loader_result[b].received
          /\ loader_result[a].after_clear = cache_clears
          /\ loader_result[b].after_clear = cache_clears

\* C16: the readiness check answers ready only when all scoring models are
\* loaded: models_loaded is false before load_models has completed, during
\* loading and after a load that failed part-way, and the check then answers
\* 503; once it has answered ready it never answers not-ready again.
C16_ReadyOnlyWhenModelsLoaded ==
    /\ models_loaded => (loaded_models = AllModels)
    /\ LoadPhase \in {"not started", "loading", "failed"} => ~models_loaded
    /\ \A i \in 1..Len(ready_responses) :
          /\ ready_responses[i].status_code \in {200, 503}
          /\ ready_responses[i].status_code = 200
                => ready_responses[i].loaded = AllModels
          /\ ready_responses[i].phase # "loaded"
                => ready_responses[i].status_code = 503
          /\ \A j \in i..Len(ready_responses) :
                ready_responses[i].status_code = 200
                   => ready_responses[j].status_code = 200

\* C16 witness: the check answered 503 during a load that then failed
\* part-way, 503 again after the failure, and 200 after a second load.
C16_ReadyAfterFailedLoad ==
    /\ Len(ready_responses) = 3
    /\ ready_responses[1].phase = "loading"
    /\ ready_responses[1].loaded # {}
    /\ ready_responses[2].phase = "failed"
    /\ ready_responses[2].status_code = 503
    /\ ready_responses[3].status_code = 200

\* C17: when a request operation fails, the error returned to the caller
\* does not depend on the text of the internal exception: two failures of
\* the same kind (same operation, same class of exception) with different
\* internal messages produce the same caller-visible error.
C17_ErrorIndependentOfInternalMessage ==
    \A i, j \in 1..Len(error_log) :
        (/\ error_log[i].operation = error_log[j].operation
         /\ error_log[i].exception.class = error_log[j].exception.class)
            => error_log[i].response = error_log[j].response

\* C18: if computing the embedding of a sentence fails, process_guidelines
\* still returns a result instead of raising, the sentence is retained in
\* its category with a null embedding, and every other classified sentence
\* of every text is in the result.
C18_EmbeddingFailureIsContained ==
    guideline_status # "none" =>
        /\ guideline_status = "returned"
        /\ \A i \in 1..Len(SentencesFrom(guideline_texts, 1, 1)) :
              LET sentence == SentencesFrom(guideline_texts, 1, 1)[i]
                  entries ==
                      CASE sentence.kind = "requirement" -> processed.requirements
                        [] sentence.kind = "objective" -> processed.objectives
                        [] sentence.kind = "restriction" -> processed.restrictions
                        [] OTHER -> <<>>
              IN  sentence.kind # "other" =>
                     \E k \in 1..Len(entries) :
                        /\ entries[k].text = sentence.at
                        /\ sentence.encode_raises
                              => entries[k].embedding = "null"

\* C19: every generate_project request runs its stages in the order text
\* extraction of all documents, guideline structuring, project synthesis,
\* bias analysis, document rendering; a stage starts only after the previous
\* one has completed successfully; bias analysis and rendering operate on
\* the structure synthesis produced in the same request.
C19_StagesInOrderOnOwnStructure ==
    \A r \in PipelineRequests :
        LET done == pipeline[r].completed
        IN  /\ Len(done) <= Len(StageOrder)
            /\ \A k \in 1..Len(done) : done[k] = StageOrder[k]
            /\ pipeline[r].pc \in {"idle", "failed"}
                  \/ pipeline[r].pc = (IF Len(done) < Len(StageOrder)
                                       THEN StageOrder[Len(done) + 1]
                                       ELSE "done")
            /\ Len(done) >= 1 => pipeline[r].extracted = pipeline[r].documents
            /\ Len(done) >= 4 => /\ pipeline[r].analyzed = [request |-> r]
                                 /\ pipeline[r].analyzed = pipeline[r].project_structure
            /\ Len(done) >= 5 => /\ pipeline[r].rendered = [request |-> r]
                                 /\ pipeline[r].rendered = pipeline[r].project_structure
            /\ Len(done) < 4 => pipeline[r].analyzed = NoProject
            /\ Len(done) < 5 => pipeline[r].rendered = NoProject

\* C19 witness: of two requests under way together, one with two documents
\* has run all five stages and the other failed in bias analysis, after its
\* own synthesis.
C19_TwoRequestsInterleaved ==
    \E a, b \in PipelineRequests :
        /\ a # b
        /\ pipeline[a].pc = "done"
        /\ pipeline[a].documents = 2
        /\ pipeline[a].rendered = [request |-> a]
        /\ pipeline[b].pc = "failed"
        /\ Len(pipeline[b].completed) = 3
        /\ pipeline[b].project_structure = [request |-> b]

\* C21: for any valid project body, POST /projects/ sent without any
\* credentials answers 200 with the submitted title and a new id, and a
\* following GET /projects/{id} with that id answers 200 with the same title
\* and the same id.
C21_CreateReadRoundTripWithoutCredentials ==
    \A i \in 1..Len(px_log) :
        (px_log[i].request.operation = "create"
         /\ px_log[i].request.token = NoToken)
            => /\ px_log[i].response.status_code = 200
               /\ px_log[i].response.body.title = px_log[i].request.title
               /\ px_log[i].response.body.id >= 1
               /\ \A j \in 1..(i - 1) :
                     px_log[j].request.operation = "create"
                        => px_log[j].response.body.id # px_log[i].response.body.id
               /\ (i < Len(px_log)
                   /\ px_log[i + 1].request.operation = "read"
                   /\ px_log[i + 1].request.token = NoToken
                   /\ px_log[i + 1].request.id = px_log[i].response.body.id)
                     => /\ px_log[i + 1].response.status_code = 200
                        /\ px_log[i + 1].response.body.title = px_log[i].request.title
                        /\ px_log[i + 1].response.body.id = px_log[i].response.body.id

C22_ScoreFormula ==
    validation_result # NoValidation =>
        LET minimum == CASE validation_result.section = "justification" -> 200
                         [] validation_result.section = "objectives" -> 50
                         [] validation_result.section = "methodology" -> 150
            taken == (IF validated_content.words < minimum THEN 2 ELSE 0)
                     + validated_content.missing
                     + (IF validated_content.label \in {"1 star", "2 stars"}
                        THEN 1 ELSE 0)
            tenths == IF taken >= 10 THEN 0 ELSE 10 - taken
        IN  /\ BigCmp(BigMulSmall(BigDist(BigMulSmall(validation_result.score, 10),
                                          BigShl(BigFromInt(tenths), 60)),
                                  100000),
                      ScoreOne) <= 0
            /\ BigCmp(validation_result.score, ScoreOne) <= 0
            /\ validated_content.missing = 10 => validation_result.score = <<>>

\* C22 witness: a justification of 199 words missing seven keywords, with a
\* negative label, was validated: every deduction applies and the score is
\* clamped at 0.
C22_AllDeductionsClamped ==
    /\ validation_result.section = "justification"
    /\ validated_content = [words |-> 199, missing |-> 7, label |-> "1 star"]
    /\ validation_result.score = <<>>
    /\ Len(validation_result.issues) = 3

\* The examples of the call that carry the field with a similarity strictly
\* between 0.5 and 0.95
QualifyingExamples ==
    {k \in 1..Len(examples_input.examples) :
        /\ examples_input.examples[k].has_field
        /\ examples_input.examples[k].similarity > 500
        /\ examples_input.examples[k].similarity < 950}

\* What C23 says of a call on which improve_text raised nothing
ChoiceAsStated ==
    /\ QualifyingExamples # {} =>
          /\ choice.path = "merge"
          /\ choice.project_id \in QualifyingExamples
          /\ \A k \in QualifyingExamples :
                examples_input.examples[k].similarity
                   <= examples_input.examples[choice.project_id].similarity
          /\ choice.confidence =
                examples_input.examples[choice.project_id].similarity
    /\ QualifyingExamples = {} =>
          /\ choice.path = "enhance"
          /\ choice.confidence = 600

\* C23 as stated: improve_text considers only approved examples that carry
\* the field type and whose similarity s satisfies 0.5 < s < 0.95; if one
\* qualifies it merges with the one of highest similarity and returns that
\* similarity as confidence, and if none qualifies it takes the enhancement
\* path with confidence exactly 0.6.
C23_ChoiceAsStated ==
    choice # NoChoice => ChoiceAsStated

\* C23 amended: the same, for every call in which no embedding and no merge
\* raises; a call in which one raises returns the text with confidence 0.0.
C23_ChoiceOrErrorPath ==
    choice # NoChoice =>
        /\ ~examples_input.raises => ChoiceAsStated
        /\ examples_input.raises =>
              choice.path = "error" /\ choice.confidence = 0

\* C23 witness: of two qualifying examples the second, of higher similarity
\* just below 0.95, was merged.
C23_HigherSimilarityMerged ==
    /\ choice.path = "merge"
    /\ Len(examples_input.examples) = 2
    /\ QualifyingExamples = {1, 2}
    /\ examples_input.examples[1].similarity = 501
    /\ choice.project_id = 2
    /\ choice.confidence = 949

\* The ranges of C24 that hold a total: lower end, upper end (0 for none),
\* approval rate in thousandths
StatedBudgetRanges ==
    {<<0, 100000, 350>>, <<100000, 500000, 650>>, <<500000, 1000000, 700>>,
     <<1000000, 0, 450>>}

\* C24: the budget ranges [0,100000), [100000,500000), [500000,1000000),
\* [1000000,inf) do not overlap and cover every non-negative total, which so
\* matches exactly one range; the pattern is flagged iff the approval rate of
\* the matched range is below 0.4 or above 0.6, with score |rate - 0.5|,
\* which flags exactly the totals in [0, 1000000); a negative total matches
\* no range and is not flagged.
C24_BudgetRangeFlagging ==
    (analysis_status = "returned" /\ analysis_input.budget.kind = "number") =>
        LET total == analysis_input.budget.total
            result == detector_results[4]
            stated == {r \in StatedBudgetRanges :
                          r[1] <= total /\ (r[2] = 0 \/ total < r[2])}
            matched == {i \in 1..Len(BudgetRanges) : InRange(total, BudgetRanges[i])}
        IN  /\ result.type = "budget"
            /\ Cardinality(matched) = (IF total >= 0 THEN 1 ELSE 0)
            /\ Cardinality(stated) = Cardinality(matched)
            /\ result.detected <=> (0 <= total /\ total < 1000000)
            /\ \A r \in stated :
                  /\ result.detected <=> (r[3] < 400 \/ r[3] > 600)
                  /\ result.detected =>
                        /\ result.score = Abs(r[3] - 500)
                        /\ result.description[2] = r[1]
                        /\ result.description[3] = r[2]
            /\ ~result.detected => result.score = 0

\* C24 witness: a total of exactly 1000000 was analysed and not flagged.
C24_MillionNotFlagged ==
    /\ analysis_status = "returned"
    /\ analysis_input.budget.kind = "number"
    /\ analysis_input.budget.total = 1000000
    /\ ~detector_results[4].detected

\* The place of each pattern type in a report, and its recommendation
PatternOrder ==
    [institutional |-> 1, geographic |-> 2, complexity |-> 3, budget |-> 4]

StatedRecommendation ==
    [institutional |-> "Considere revisar os criterios de avaliacao",
     geographic |-> "Ajuste o projeto para alinhar com a distribuicao geografica",
     complexity |-> "Simplifique a estrutura do projeto",
     budget |-> "Revise o orcamento"]

\* C25: in every bias report the recommendations correspond one-to-one to the
\* flagged patterns: as many recommendations as patterns, the i-th being the
\* fixed text of the type of the i-th pattern, and the patterns are only
\* flagged ones, at most one per type, in the order institutional,
\* geographic, complexity, budget.
C25_RecommendationsMatchPatterns ==
    analysis_status = "returned" =>
        LET patterns == analysis.patterns
            recommendations == analysis.recommendations
        IN  /\ Len(recommendations) = Len(patterns)
            /\ \A i \in 1..Len(patterns) :
                  /\ patterns[i].detected
                  /\ patterns[i].type \in DOMAIN PatternOrder
                  /\ recommendations[i] = StatedRecommendation[patterns[i].type]
            /\ \A i, j \in 1..Len(patterns) :
                  i < j => PatternOrder[patterns[i].type] < PatternOrder[patterns[j].type]
            /\ \A k \in 1..Len(detector_results) :
                  detector_results[k].detected <=>
                      \E i \in 1..Len(patterns) : patterns[i] = detector_results[k]

\* C25 witness: a report with all four patterns and their four recommendations.
C25_FourPatternsReported ==
    /\ analysis_status = "returned"
    /\ Len(analysis.patterns) = 4
    /\ Len(analysis.recommendations) = 4

\* The positions <<text, sentence>> of the entries of a list of the result
PositionsIn(entries) == {entries[k].text : k \in 1..Len(entries)}

\* C26: process_guidelines places each sentence in at most one of
\* requirements, objectives, restrictions, by the first matching rule in the
\* order requirement, objective, restriction: a sentence with a requirement
\* marker and an objective or restriction marker is only in requirements,
\* one with objective and restriction markers only in objectives, and a
\* sentence matching no rule is in none of the three lists.
C26_FirstMatchingRuleWins ==
    guideline_status = "returned" =>
        \A t \in 1..Len(guideline_texts) : \A k \in 1..Len(guideline_texts[t]) :
            LET markers == guideline_texts[t][k].markers
                in_requirements == <<t, k>> \in PositionsIn(processed.requirements)
                in_objectives == <<t, k>> \in PositionsIn(processed.objectives)
                in_restrictions == <<t, k>> \in PositionsIn(processed.restrictions)
            IN  /\ ~(in_requirements /\ in_objectives)
                /\ ~(in_requirements /\ in_restrictions)
                /\ ~(in_objectives /\ in_restrictions)
                /\ in_requirements <=> "requirement" \in markers
                /\ in_objectives <=>
                      ("objective" \in markers /\ "requirement" \notin markers)
                /\ in_restrictions <=> (markers = {"restriction"})
                /\ markers = {} =>
                      ~(in_requirements \/ in_objectives \/ in_restrictions)

\* C26 witness: a sentence with all three markers went to requirements and
\* one with objective and restriction markers to objectives.
C26_OverlappingMarkersClassified ==
    /\ guideline_status = "returned"
    /\ Len(guideline_texts) = 1
    /\ Len(guideline_texts[1]) = 2
    /\ guideline_texts[1][1].markers = SentenceMarkers
    /\ guideline_texts[1][2].markers = {"objective", "restriction"}
    /\ PositionsIn(processed.requirements) = {<<1, 1>>}
    /\ PositionsIn(processed.objectives) = {<<1, 2>>}
    /\ processed.restrictions = <<>>

\* The stages before a stage, in order
StagesBefore(stage) ==
    SelectSeq(StageOrder,
              LAMBDA s : \E i, j \in 1..Len(StageOrder) :
                            i < j /\ StageOrder[i] = s /\ StageOrder[j] = stage)

\* C29: in generate_project a failure in any stage (extraction of any
\* document, guideline structuring, synthesis, bias analysis, rendering) ends
\* the request with an error: no later stage runs, the 'generated' feedback
\* task is not scheduled, and the counters record 'started' once followed by
\* exactly one of 'success' or 'error'; the feedback task is scheduled only
\* on requests that end in 'success'.
C29_FailureEndsRequest ==
    \A r \in PipelineRequests :
        LET request == pipeline[r]
        IN  /\ request.failed_at # "" =>
                  /\ request.pc = "failed"
                  /\ request.completed = StagesBefore(request.failed_at)
                  /\ ~request.scheduled
                  /\ request.counters = <<"started", "error">>
                  /\ request.failed_at \in {"extract", "guidelines", "synthesis"}
                        => request.analyzed = NoProject
                  /\ request.rendered = NoProject
            /\ request.pc = "idle" => request.counters = <<>>
            /\ request.pc \in {StageOrder[k] : k \in 1..Len(StageOrder)}
                  => request.counters = <<"started">>
            /\ request.pc \in {"done", "failed"} =>
                  /\ Len(request.counters) = 2
                  /\ request.counters[1] = "started"
                  /\ request.counters[2] \in {"success", "error"}
            /\ request.scheduled <=>
                  (request.pc = "done" /\ request.counters = <<"started", "success">>)

\* C29 witness: one request failed on its second document and another in
\* rendering; neither scheduled the feedback task.
C29_FailedInExtractionAndRendering ==
    \E a, b \in PipelineRequests :
        /\ pipeline[a].failed_at = "extract"
        /\ pipeline[a].extracted = 1
        /\ pipeline[a].documents = 2
        /\ pipeline[a].counters = <<"started", "error">>
        /\ pipeline[b].failed_at = "render"
        /\ Len(pipeline[b].completed) = 4
        /\ pipeline[b].counters = <<"started", "error">>
        /\ ~pipeline[a].scheduled /\ ~pipeline[b].scheduled

\* The total the synthesizer takes from the seed: data.get('budget', 500000)
SeedTotal(seed) == IF seed.kind = "absent" THEN 500000 ELSE seed.value

\* C27: for every structure produced by the synthesizer and analysed inside
\* generate_project, the institutional, geographic and complexity patterns
\* are never flagged (no institution_type or region field, at most 4 specific
\* objectives, exactly 6 timeline entries and 5 team entries, so a complexity
\* counter of at most 1); the only pattern that can be in the report is
\* budget, and bias_detected is true exactly when the seed budget total is
\* in [0, 1000000).
C27_OnlyBudgetPatternOnGenerated ==
    generated.status = "analysed" =>
        LET project_data == generated.project_data
            counter == (IF project_data.objectives.specific > 5 THEN 1 ELSE 0)
                     + (IF project_data.budget.total > 1000000 THEN 1 ELSE 0)
                     + (IF project_data.timeline > 8 THEN 1 ELSE 0)
                     + (IF project_data.team > 10 THEN 1 ELSE 0)
            total == SeedTotal(generated.seed)
        IN  /\ project_data.institution_type = "" /\ project_data.region = ""
            /\ project_data.objectives.specific \in 1..4
            /\ project_data.timeline = 6
            /\ project_data.team = 5
            /\ counter <= 1
            /\ \A k \in 1..3 : ~generated.results[k].detected
            /\ \A i \in 1..Len(generated.report.patterns) :
                  generated.report.patterns[i].type = "budget"
            /\ generated.report.bias_detected <=> (0 <= total /\ total < 1000000)

\* C27 witness: a structure seeded with a budget of 2000000 and six
\* guideline objectives was analysed and nothing was flagged.
C27_LargeSeedNotFlagged ==
    /\ generated.status = "analysed"
    /\ generated.seed = [kind |-> "number", value |-> 2000000]
    /\ generated.project_data.objectives.specific = 3
    /\ ~generated.report.bias_detected
    /\ generated.report.patterns = <<>>

\* C28: the bias detector's history grows by exactly one entry on each
\* approval_decision feedback and is left unchanged by every other feedback
\* type; bias retraining runs on a submission iff it is an approval_decision
\* and the history length after the append is >= 100; the history is never
\* consumed or reset, so every approval_decision from the 100th onward runs
\* retraining again.
C28_HistoryGrowthAndRetraining ==
    [][fb_requests' # fb_requests =>
          /\ fb_last'.feedback_type = "approval_decision" =>
                /\ Len(historical_data') = Len(historical_data) + 1
                /\ SubSeq(historical_data', 1, Len(historical_data)) = historical_data
          /\ fb_last'.feedback_type # "approval_decision" =>
                historical_data' = historical_data
          /\ fb_last'.retrain_entered <=>
                (/\ fb_last'.feedback_type = "approval_decision"
                 /\ Len(historical_data') >= 100)]_vars

\* C28 witness: the 101st approval_decision entered retraining again.
C28_RetrainedAgainAfterHundredth ==
    /\ Len(historical_data) = 101
    /\ fb_last.feedback_type = "approval_decision"
    /\ fb_last.retrain_entered

====
